---- MODULE Spec2Model ----
(***************************************************************************)
(* State machine of the extraction engine of the browser extension:        *)
(*   - ModuleManager (modules/module-manager.js): the module registry and  *)
(*     executeEnabledModules, the sequential run loop;                     *)
(*   - the background service worker (background script, part_001):       *)
(*     startExtraction / cancelExtraction and the two callbacks it hands   *)
(*     to the run loop;                                                    *)
(*   - the scrape bodies of the modules, as far as the run loop can see    *)
(*     them: page-probe calls, progress events, the module-level timer of  *)
(*     the health-check module, and how the scrape promise settles;        *)
(*   - the registry of ModuleManager on its own (registerModule,           *)
(*     enableModules, getModule, getEnabledModules);                       *)
(*   - ProfilesModule.scrapeProfile (modules/profiles-module.js): the      *)
(*     auxiliary tab of each profile link, its 120 s timer and its promise;*)
(*   - formatData and getFilename of the modules (sandboxes, health-check, *)
(*     profiles, storage, sensitive-data, login-history), as functions of   *)
(*     the raw data and of the wall clock;                                 *)
(*   - the scrape bodies of HealthCheckModule, SandboxesModule and         *)
(*     GeneralInfoModule (modules/sandboxes-module.js) await by await:     *)
(*     search, click, delays, readiness polling, scrape attempts;          *)
(*   - the click functions injected into the page (clickElementFunc,       *)
(*     clickHealthCheckLinkFunc, clickCompanyInformationLinkFunc,          *)
(*     clickSharingSettingsLinkFunc), as functions of the page's elements; *)
(*   - ProfilesModule.countActiveUsersWithPagination, page by page, under  *)
(*     the 120 s timer of scrapeProfile.                                   *)
(* Every await of the code is a step boundary: between two steps of one    *)
(* run any message (START_EXTRACTION, CANCEL_EXTRACTION), timer or step of *)
(* another run may be served, as on the JavaScript event loop.             *)
(***************************************************************************)
EXTENDS Integers, Sequences, FiniteSets, TLC

\* Bounds of the model: the calls of startExtraction that pass its guard, the
\* length of a module id list of one run, the runs that overlap and the length of
\* their lists, and the page probes and progress events of one scrape body.
MaxRuns == 3
MaxLen == 2
MaxOverlap == 2
MaxLenOverlap == 1
MaxProbes == 1
MaxProgress == 2
\* The registerModule calls made after the service worker's own.
MaxInstances == 2
\* The profile links ProfilesModule.scrape walks through.
MaxProfiles == 2

RunIds == 1..MaxRuns
Positions == 1..MaxLen

\* The module ids the service worker registers, and an id nobody registered.
RegisteredIds == {"profiles", "health-check", "login-history"}
UnknownId == "no-such-module"
RequestIds == RegisteredIds \cup {UnknownId}
RequestsUpTo(n) == UNION {[1..k -> RequestIds] : k \in 1..n}
Last(seq) == seq[Len(seq)]

\* What a module's steps can do (the module contract of base-module.js).
HasModuleTimeout(id) == id = "health-check"
EmitsProgress(id) == id = "profiles"
ModuleName(id) ==
    CASE id = "profiles" -> "Profiles"
      [] id = "health-check" -> "Health Check"
      [] id = "login-history" -> "Login History"
      [] OTHER -> id
Filename(id) ==
    CASE id = "profiles" -> "2_profiles"
      [] id = "health-check" -> "4_health_check"
      [] id = "login-history" -> "8_login_history"
      [] OTHER -> id
StepErrors == {"unexpected failure"}
ScrapeErrors == {"link not found"}
TimeoutError == "Timeout: Health Check operation took too long (exceeded 150 seconds)"
DefaultValidationError == "Module validation failed"
Verdicts ==
    { [valid |-> TRUE, message |-> ""],
      [valid |-> FALSE, message |-> "page not supported"],
      [valid |-> FALSE, message |-> ""] }
RawData == {"rows"}
DownloadErrors == {"download interrupted"}
FormatData(id, raw) ==
    IF id = "login-history" THEN "" ELSE "REPORT " \o ModuleName(id) \o ": " \o raw

VARIABLES
    modules,               \* ModuleManager.modules: the instance registered under each id
    isEnabled,             \* ModuleManager: module.isEnabled of each registered module
    executionOrder,        \* ModuleManager.executionOrder
    nextInstance,          \* the serial number of the next instance handed to registerModule
    lastCall,              \* the last call that changed the registry, and its arguments
    isExtractionActive,    \* background: let isExtractionActive
    currentExtractionJob,  \* background: the job object it points at (0 = null)
    moduleIds,             \* job.moduleIds of the job each run created
    cancelled,             \* job.cancelled of the job each run created
    nextRun,               \* the next call of startExtraction that gets past its guard
    pc,                    \* where each run is suspended
    enabledModules,        \* executeEnabledModules: const enabledModules
    current,               \* executeEnabledModules: let current
    results,               \* executeEnabledModules: const results
    validation,            \* executeEnabledModules: const validation
    promise,               \* the promise of the module.scrape call being awaited
    body,                  \* the scrape bodies each run has called, by position
    events,                \* the events each run handed to its progressCallback argument
    delays,                \* the delay(ms) calls of the loop of each run, by their ms
    hpc,                   \* where the completion callback of each run is suspended
    completedCount,        \* startExtraction: let completedCount
    downloads,             \* chrome.downloads.download calls each run has made
    popup,                 \* messages each run has handed to sendMessageToPopup
    link,                  \* ProfilesModule.scrape: the profile link its loop is at
    profile,               \* the scrapeProfile call of each link: body, tab, timer, promise
    scrapedData,           \* ProfilesModule.scrape: const scrapedData
    clock,                 \* the wall clock new Date() reads, in seconds
    formatted,             \* the formatData calls made: module, raw data, text returned
    filenames,             \* the getFilename calls made: module, value returned
    scraping,              \* the module whose scrape body is followed step by step
    step,                  \* where that body is suspended
    section,               \* GeneralInfoModule.scrape: the section it is at (0 = none)
    trace,                 \* the page calls and delays the body has made, in order
    retryCount,            \* HealthCheckModule.scrape: let retryCount
    tablesFound,           \* HealthCheckModule.scrape: let tablesFound
    attempt,               \* HealthCheckModule.scrape: let attempt
    healthCheckData,       \* HealthCheckModule.scrape: let healthCheckData
    timeout,               \* HealthCheckModule.scrape: let timeout (the 150 s timer)
    settled,               \* the promise the scrape call returned
    clickCall,             \* the last call of a click function: page and result
    counting               \* countActiveUsersWithPagination: its locals, the tab, the timer

mgrVars == <<modules, isEnabled, executionOrder, nextInstance, lastCall>>
jobVars == <<isExtractionActive, currentExtractionJob, moduleIds, cancelled, nextRun>>
loopVars == <<pc, enabledModules, current, results, validation>>
scrapeVars == <<promise, body>>
callerVars == <<hpc, completedCount, downloads, popup>>
profVars == <<link, profile, scrapedData>>
fmtVars == <<clock, formatted, filenames>>
stepVars == <<scraping, step, section, trace, retryCount, tablesFound, attempt,
              healthCheckData, timeout, settled>>
pageVars == <<clickCall, counting>>
sideVars == <<profVars, fmtVars, stepVars, pageVars>>
vars == <<mgrVars, jobVars, loopVars, scrapeVars, events, delays, callerVars, sideVars>>

NoVerdict == [valid |-> TRUE, message |-> ""]
NoPromise == [st |-> "none", val |-> ""]
NoBody == [st |-> "none", probes |-> 0, emitted |-> 0, timer |-> "unset"]
\* The instances the service worker registers at startup, and getModule's null.
StartupInstance == 0
Null == 0 - 1
NoProfile == [pc |-> "idle", tab |-> "none", timer |-> "unset", st |-> "pending", val |-> ""]
\* What HealthCheckModule.scrape reads of a result of scrapeHealthCheckDataFunc: the
\* score, the lengths of three row lists and the error message; isNull marks null.
NoData == [isNull |-> TRUE, percentage |-> "", settings |-> 0, highRisk |-> 0,
           mediumRisk |-> 0, error |-> ""]
\* The promise of the scrape call that is followed step by step, not yet settled.
NotSettled == [st |-> "none", val |-> "", data |-> NoData]
NoCall == [op |-> "none", ids |-> <<>>, id |-> "", instance |-> Null, old |-> Null]

Init ==
    /\ modules = [id \in RegisteredIds |-> StartupInstance]
    /\ isEnabled = [id \in RegisteredIds |-> FALSE]
    /\ executionOrder = <<>>
    /\ nextInstance = 1
    /\ lastCall = NoCall
    /\ isExtractionActive = FALSE
    /\ currentExtractionJob = 0
    /\ moduleIds = [r \in RunIds |-> <<>>]
    /\ cancelled = [r \in RunIds |-> FALSE]
    /\ nextRun = 1
    /\ pc = [r \in RunIds |-> "idle"]
    /\ enabledModules = [r \in RunIds |-> <<>>]
    /\ current = [r \in RunIds |-> 0]
    /\ results = [r \in RunIds |-> <<>>]
    /\ validation = [r \in RunIds |-> NoVerdict]
    /\ promise = [r \in RunIds |-> NoPromise]
    /\ body = [r \in RunIds |-> [k \in Positions |-> NoBody]]
    /\ events = [r \in RunIds |-> <<>>]
    /\ delays = [r \in RunIds |-> <<>>]
    /\ hpc = [r \in RunIds |-> "idle"]
    /\ completedCount = [r \in RunIds |-> 0]
    /\ downloads = [r \in RunIds |-> 0]
    /\ popup = [r \in RunIds |-> <<>>]
    /\ link = 0
    /\ profile = [i \in 1..MaxProfiles |-> NoProfile]
    /\ scrapedData = <<>>
    /\ clock = 0
    /\ formatted = <<>>
    /\ filenames = {}
    /\ scraping = "none"
    /\ step = "idle"
    /\ section = 0
    /\ trace = <<>>
    /\ retryCount = 0
    /\ tablesFound = FALSE
    /\ attempt = 0
    /\ healthCheckData = NoData
    /\ timeout = "unset"
    /\ settled = NotSettled
    /\ clickCall = [func |-> "none", page |-> <<>>, result |-> [success |-> FALSE, target |-> 0]]
    /\ counting = [pc |-> "idle", pageNum |-> 1, totalCount |-> 0, visited |-> 0,
                   elapsed |-> 0, timeout |-> "none", tab |-> "none"]

(***************************************************************************)
(* ModuleManager: the registry.                                            *)
(***************************************************************************)
\* An enableModules that keeps the executionOrder of the calls before.
EnableOrder_NotReset(ids) ==
    executionOrder \o SelectSeq(ids, LAMBDA id : id \in DOMAIN modules)
\* enableModules(moduleIds): the ids that end up in executionOrder.
EnableOrder(ids) == SelectSeq(ids, LAMBDA id : id \in DOMAIN modules)
\* enableModules(moduleIds): the isEnabled flags it leaves.
EnableFlags(ids) ==
    [id \in DOMAIN modules |-> \E i \in 1..Len(ids) : ids[i] = id]
\* getEnabledModules(): executionOrder, less the ids whose module is disabled.
GetEnabledModules(order, flags) ==
    SelectSeq(order, LAMBDA id : id \in DOMAIN modules /\ flags[id])
\* enableModules(moduleIds), as a step of the registry.
EnableModules(ids) ==
    /\ executionOrder' = EnableOrder(ids)
    /\ isEnabled' = EnableFlags(ids)
    /\ lastCall' = [NoCall EXCEPT !.op = "enableModules", !.ids = ids]
    /\ UNCHANGED <<modules, nextInstance>>

\* getModule(id): this.modules.get(id) || null
GetModule(mods, id) == IF id \in DOMAIN mods THEN mods[id] ELSE Null
\* A registry that keeps the instance an id already has.
SetModule_KeepExisting(mods, id, inst) ==
    [x \in DOMAIN mods \cup {id} |-> IF x = id /\ x \notin DOMAIN mods THEN inst ELSE mods[x]]
\* this.modules.set(id, moduleInstance)
SetModule(mods, id, inst) ==
    [x \in DOMAIN mods \cup {id} |-> IF x = id THEN inst ELSE mods[x]]

(***************************************************************************)
(* Background: the two callbacks startExtraction hands to the run loop.    *)
(***************************************************************************)
\* currentExtractionJob?.cancelled
JobCancelled(job, flags) == job # 0 /\ flags[job]

\* A start event that counts positions from zero.
StartedEvent_ZeroBased(id, cur, total) ==
    [type |-> "MODULE_STARTED", moduleId |-> id, current |-> cur - 1, total |-> total]
StartedEvent(id, cur, total) ==
    [type |-> "MODULE_STARTED", moduleId |-> id, current |-> cur, total |-> total]
ProgressEvent(id, n) ==
    [type |-> "MODULE_PROGRESS", moduleId |-> id, current |-> n, total |-> MaxProgress]
CompletedMessage(id, cur, total) ==
    [type |-> "MODULE_COMPLETED", moduleId |-> id, current |-> cur, total |-> total]
ErrorMessage(id, m) == [type |-> "MODULE_ERROR", moduleId |-> id, error |-> m]
CompleteMessage(rs) == [type |-> "EXTRACTION_COMPLETE", results |-> rs]

\* The progress callback: forwards the event unless the job is cancelled.
ProgressCallback(log, job, flags, ev) ==
    IF JobCancelled(job, flags) THEN log ELSE Append(log, ev)

\* The completion callback, up to its first await or its return.
CompletionCallback(r, result) ==
    IF JobCancelled(currentExtractionJob, cancelled)
    THEN /\ hpc' = [hpc EXCEPT ![r] = "idle"]
         /\ UNCHANGED <<completedCount, downloads, popup>>
    ELSE /\ completedCount' = [completedCount EXCEPT ![r] = @ + 1]
         /\ IF result.moduleId = "login-history"
            THEN /\ popup' = [popup EXCEPT ![r] = Append(@,
                        CompletedMessage(result.moduleId, completedCount[r] + 1,
                                         Len(moduleIds[r])))]
                 /\ hpc' = [hpc EXCEPT ![r] = "idle"]
                 /\ UNCHANGED downloads
            ELSE /\ downloads' = [downloads EXCEPT ![r] = @ + 1]
                 /\ hpc' = [hpc EXCEPT ![r] = "download"]
                 /\ UNCHANGED popup

\* chrome.downloads.download settles: MODULE_COMPLETED, or MODULE_ERROR when it
\* rejected. The callback does not look at the job again.
DownloadSettles(r) ==
    /\ hpc[r] = "download"
    /\ hpc' = [hpc EXCEPT ![r] = "idle"]
    /\ \/ popup' = [popup EXCEPT ![r] = Append(@,
                CompletedMessage(enabledModules[r][current[r]], completedCount[r],
                                 Len(moduleIds[r])))]
       \/ \E m \in DownloadErrors :
             popup' = [popup EXCEPT ![r] = Append(@,
                ErrorMessage(enabledModules[r][current[r]], m))]
    /\ UNCHANGED <<sideVars, delays, mgrVars, jobVars, loopVars, scrapeVars, events,
                   completedCount,
                   downloads>>

(***************************************************************************)
(* executeEnabledModules: one module's result and what follows it.         *)
(***************************************************************************)
SuccessResult(id, raw) ==
    [moduleId |-> id, moduleName |-> ModuleName(id), data |-> FormatData(id, raw),
     filename |-> Filename(id), success |-> TRUE, rawData |-> raw]
\* A failure result whose payload is the bare message.
FailureResult_NoPrefix(id, m) ==
    [moduleId |-> id, moduleName |-> ModuleName(id), data |-> m,
     filename |-> Filename(id), success |-> FALSE, error |-> m]
FailureResult(id, m) ==
    [moduleId |-> id, moduleName |-> ModuleName(id), data |-> "Error: " \o m,
     filename |-> Filename(id), success |-> FALSE, error |-> m]
\* results.push(result) of the try block and of the catch block.
CollectSuccess(rs, res) == Append(rs, res)
\* A catch block that forgets to collect the failure result.
CollectFailure_Dropped(rs, res) == rs
CollectFailure(rs, res) == Append(rs, res)

\* The try block after scrape resolved: collect, then call the completion callback.
Succeed(r, raw) ==
    LET res == SuccessResult(enabledModules[r][current[r]], raw) IN
    /\ results' = [results EXCEPT ![r] = CollectSuccess(@, res)]
    /\ pc' = [pc EXCEPT ![r] = "cb"]
    /\ CompletionCallback(r, res)
\* A throw that no catch block receives: executeEnabledModules rejects.
Uncaught(r, m) ==
    /\ pc' = [pc EXCEPT ![r] = "error"]
    /\ UNCHANGED <<results, callerVars>>
\* The catch block: any throw of initialize, validate or scrape lands here.
Caught(r, m) ==
    LET res == FailureResult(enabledModules[r][current[r]], m) IN
    /\ results' = [results EXCEPT ![r] = CollectFailure(@, res)]
    /\ pc' = [pc EXCEPT ![r] = "cb"]
    /\ CompletionCallback(r, res)

\* A loop that stops once the job is cancelled.
HasNext_UnlessCancelled(r) ==
    current[r] < Len(enabledModules[r]) /\ ~JobCancelled(currentExtractionJob, cancelled)
\* for (const { id, module } of enabledModules): is there a module left to run.
HasNext(r) == current[r] < Len(enabledModules[r])
\* A loop that calls the completion callback and does not await it.
HandlerSettled_NotAwaited(r) == TRUE
\* await completionCallback(result): the loop goes on when the callback settled,
\* by returning or (in the try block, which catches it) by throwing.
HandlerSettled(r) == hpc[r] \in {"idle", "threw"}

(***************************************************************************)
(* Background: startExtraction and cancelExtraction.                       *)
(***************************************************************************)
\* The code after `await executeEnabledModules(...)`, without the finally block.
FinishRun_KeepsFlag(r, log, job, flags, rs) ==
    /\ popup' = [popup EXCEPT ![r] =
          IF JobCancelled(job, flags) THEN log ELSE Append(log, CompleteMessage(rs))]
    /\ UNCHANGED <<isExtractionActive, currentExtractionJob>>
\* The code after `await executeEnabledModules(...)`, and the finally block.
FinishRun(r, log, job, flags, rs) ==
    /\ popup' = [popup EXCEPT ![r] =
          IF JobCancelled(job, flags) THEN log ELSE Append(log, CompleteMessage(rs))]
    /\ isExtractionActive' = FALSE
    /\ currentExtractionJob' = 0

ExtractionError(m) == [type |-> "EXTRACTION_ERROR", error |-> m]
\* executeEnabledModules rejected with m: the catch block of startExtraction reports
\* it, and the finally block runs.
FailRun(r, log, m) ==
    /\ popup' = [popup EXCEPT ![r] = Append(log, ExtractionError(m))]
    /\ isExtractionActive' = FALSE
    /\ currentExtractionJob' = 0

\* A START_EXTRACTION message while isExtractionActive: startExtraction returns.
StartIgnored ==
    /\ isExtractionActive
    /\ UNCHANGED vars

\* A START_EXTRACTION message otherwise: startExtraction(ids), up to its first await.
StartExtraction(ids) ==
       /\ ~isExtractionActive
       /\ nextRun <= MaxRuns
       /\ LET r == nextRun
              order == EnableOrder(ids)
              flags == EnableFlags(ids)
              enabled == GetEnabledModules(order, flags)
              jobFlags == [cancelled EXCEPT ![r] = FALSE]
          IN /\ nextRun' = r + 1
             /\ moduleIds' = [moduleIds EXCEPT ![r] = ids]
             /\ cancelled' = jobFlags
             /\ EnableModules(ids)
             /\ enabledModules' = [enabledModules EXCEPT ![r] = enabled]
             /\ IF enabled = <<>>
                THEN /\ pc' = [pc EXCEPT ![r] = "done"]
                     /\ FinishRun(r, popup[r], r, jobFlags, <<>>)
                     /\ UNCHANGED <<current, events>>
                ELSE /\ pc' = [pc EXCEPT ![r] = "init"]
                     /\ current' = [current EXCEPT ![r] = 1]
                     /\ isExtractionActive' = TRUE
                     /\ currentExtractionJob' = r
                     /\ events' = [events EXCEPT ![r] =
                            Append(@, StartedEvent(enabled[1], 1, Len(enabled)))]
                     /\ popup' = [popup EXCEPT ![r] = ProgressCallback(@, r, jobFlags,
                            StartedEvent(enabled[1], 1, Len(enabled)))]
             /\ UNCHANGED <<results, validation, scrapeVars, hpc, completedCount, downloads,
                            sideVars, delays>>

\* A CANCEL_EXTRACTION message: cancelExtraction().
CancelExtraction ==
    /\ cancelled' = IF currentExtractionJob # 0
                    THEN [cancelled EXCEPT ![currentExtractionJob] = TRUE]
                    ELSE cancelled
    /\ isExtractionActive' = FALSE
    /\ UNCHANGED <<sideVars, delays, mgrVars, currentExtractionJob, moduleIds, nextRun,
                   loopVars,
                   scrapeVars, events, callerVars>>

(***************************************************************************)
(* executeEnabledModules: the steps of one iteration.                      *)
(***************************************************************************)
\* await module.initialize()
Initialize(r) ==
    /\ pc[r] = "init"
    /\ \/ /\ pc' = [pc EXCEPT ![r] = "validate"]
          /\ UNCHANGED <<results, callerVars>>
       \/ \E m \in StepErrors : Caught(r, m)
    /\ UNCHANGED <<sideVars, delays, mgrVars, jobVars, enabledModules, current,
                   validation, scrapeVars,
                   events>>

\* await module.validate(): it resolves with a verdict, or throws.
Validate(r) ==
    /\ pc[r] = "validate"
    /\ \/ /\ \E v \in Verdicts : validation' = [validation EXCEPT ![r] = v]
          /\ pc' = [pc EXCEPT ![r] = "validated"]
          /\ UNCHANGED <<results, callerVars>>
       \/ /\ \E m \in StepErrors : Caught(r, m)
          /\ UNCHANGED validation
    /\ UNCHANGED <<sideVars, delays, mgrVars, jobVars, enabledModules, current,
                   scrapeVars, events>>

\* A throw that drops the verdict's own message.
ValidationError_Generic(v) == DefaultValidationError
\* throw new Error(validation.message || 'Module validation failed')
ValidationError(v) == IF v.message # "" THEN v.message ELSE DefaultValidationError

\* module.scrape(enrichedContext) is called: its body starts, its promise is pending.
CallScrape(r) ==
    LET id == enabledModules[r][current[r]] IN
    /\ promise' = [promise EXCEPT ![r] = [st |-> "pending", val |-> ""]]
    /\ body' = [body EXCEPT ![r][current[r]] =
          [st |-> IF HasModuleTimeout(id) THEN "tabget" ELSE "running",
           probes |-> 0, emitted |-> 0, timer |-> "unset"]]
    /\ pc' = [pc EXCEPT ![r] = "scrape"]

\* if (!validation.valid) throw ...; otherwise scrape is called.
CheckValidation(r) ==
    /\ pc[r] = "validated"
    /\ IF validation[r].valid
       THEN /\ CallScrape(r)
            /\ UNCHANGED <<results, callerVars>>
       ELSE /\ Caught(r, ValidationError(validation[r]))
            /\ UNCHANGED scrapeVars
    /\ UNCHANGED <<sideVars, delays, mgrVars, jobVars, enabledModules, current,
                   validation, events>>

\* const data = await module.scrape(...): the promise settled.
AfterScrape(r) ==
    /\ pc[r] = "scrape"
    /\ promise[r].st \in {"resolved", "rejected"}
    /\ IF promise[r].st = "resolved"
       THEN Succeed(r, promise[r].val)
       ELSE Caught(r, promise[r].val)
    /\ promise' = [promise EXCEPT ![r] = NoPromise]
    /\ UNCHANGED <<sideVars, delays, mgrVars, jobVars, enabledModules, current,
                   validation, body, events>>

\* The delay between modules.
ModuleDelayMs == 500
\* A loop that goes on to the next module without a delay.
Delay_Skipped(log, ms) == log
\* delay(ms): a timer of ms milliseconds is set and awaited.
Delay(log, ms) == Append(log, ms)

\* await completionCallback(result) returns; the loop reaches `await delay(500)`.
AfterCompletion(r) ==
    /\ pc[r] = "cb"
    /\ HandlerSettled(r)
    /\ pc' = [pc EXCEPT ![r] = "delay"]
    /\ delays' = [delays EXCEPT ![r] = Delay(@, ModuleDelayMs)]
    /\ UNCHANGED <<sideVars, mgrVars, jobVars, enabledModules, current, results, validation,
                   scrapeVars, events, callerVars>>

\* A loop that reads the registry anew at every iteration.
ModuleAt_Live(r, k) ==
    LET live == GetEnabledModules(executionOrder, isEnabled) IN
    IF k <= Len(live) THEN live[k] ELSE enabledModules[r][k]
\* The k-th entry of the array getEnabledModules() returned when the run began.
ModuleAt(r, k) == enabledModules[r][k]

\* delay(500) elapsed: the next iteration starts, or the loop ends and the run returns.
DelayElapsed(r) ==
    /\ pc[r] = "delay"
    /\ IF HasNext(r)
       THEN /\ current' = [current EXCEPT ![r] = @ + 1]
            /\ pc' = [pc EXCEPT ![r] = "init"]
            /\ events' = [events EXCEPT ![r] =
                  Append(@, StartedEvent(ModuleAt(r, current[r] + 1), current[r] + 1,
                                         Len(enabledModules[r])))]
            /\ popup' = [popup EXCEPT ![r] =
                  ProgressCallback(@, currentExtractionJob, cancelled,
                      StartedEvent(ModuleAt(r, current[r] + 1), current[r] + 1,
                                   Len(enabledModules[r])))]
            /\ UNCHANGED <<isExtractionActive, currentExtractionJob>>
       ELSE /\ pc' = [pc EXCEPT ![r] = "done"]
            /\ FinishRun(r, popup[r], currentExtractionJob, cancelled, results[r])
            /\ UNCHANGED <<current, events>>
    /\ validation' = [validation EXCEPT ![r] = NoVerdict]
    /\ UNCHANGED <<sideVars, delays, mgrVars, moduleIds, cancelled, nextRun,
                   enabledModules, results,
                   scrapeVars, hpc, completedCount, downloads>>

(***************************************************************************)
(* The scrape body of a module. A body is the async function the scrape    *)
(* call started; it runs on whether or not anybody still awaits its        *)
(* promise.                                                                *)
(***************************************************************************)
\* The promise body k settles is the one the loop awaits, unless the timer settled it.
Awaited(r, k) == body[r][k].timer # "fired"

\* HealthCheckModule.scrape: tab = await chrome.tabs.get(...), then the 150 s timer
\* is armed; when tabs.get rejects, the catch block rejects the promise.
TabsGet(r, k) ==
    /\ body[r][k].st = "tabget"
    /\ \/ /\ body' = [body EXCEPT ![r][k].st = "running", ![r][k].timer = "armed"]
          /\ UNCHANGED promise
       \/ /\ body' = [body EXCEPT ![r][k].st = "ended"]
          /\ \E m \in StepErrors :
               promise' = [promise EXCEPT ![r] = [st |-> "rejected", val |-> m]]
    /\ UNCHANGED <<sideVars, delays, mgrVars, jobVars, loopVars, events, callerVars>>

\* One chrome.scripting.executeScript call of the body: a page probe or a click.
\* The call returns, or it never does and the body stays suspended at its await.
PageProbe(r, k) ==
    /\ body[r][k].st = "running"
    /\ body[r][k].probes < MaxProbes
    /\ \/ body' = [body EXCEPT ![r][k].probes = @ + 1]
       \/ body' = [body EXCEPT ![r][k] =
               [st |-> "hung", probes |-> 0, emitted |-> 0, timer |-> @.timer]]
    /\ UNCHANGED <<sideVars, delays, mgrVars, jobVars, loopVars, promise, events,
                   callerVars>>

\* A wrapper that drops an event of the type of the event before it.
EnrichedProgressCallback_Deduplicated(log, ev) ==
    IF log # <<>> /\ Last(log).type = ev.type THEN log ELSE Append(log, ev)
\* enrichedContext.progressCallback: the wrapper calls progressCallback(progressUpdate)
\* with the event it was given.
EnrichedProgressCallback(log, ev) == Append(log, ev)

\* context.progressCallback(...) in the body: the loop's wrapper hands the event to
\* the caller's progress callback.
EmitProgress(r, k) ==
    /\ body[r][k].st = "running"
    /\ EmitsProgress(ModuleAt(r, k))
    /\ body[r][k].emitted < MaxProgress
    /\ body' = [body EXCEPT ![r][k].emitted = @ + 1]
    /\ events' = [events EXCEPT ![r] =
          EnrichedProgressCallback(@, ProgressEvent(ModuleAt(r, k), body[r][k].emitted + 1))]
    /\ popup' = [popup EXCEPT ![r] =
          IF events'[r] = events[r] THEN @
          ELSE ProgressCallback(@, currentExtractionJob, cancelled, Last(events'[r]))]
    /\ UNCHANGED <<sideVars, delays, mgrVars, jobVars, loopVars, promise, hpc,
                   completedCount, downloads>>

\* setTimeout(() => reject(new Error('Timeout: ...')), 150000) fires: the promise is
\* rejected; the body is not told and runs on.
TimerFires(r, k) ==
    /\ body[r][k].timer = "armed"
    /\ body' = [body EXCEPT ![r][k].timer = "fired"]
    /\ promise' = [promise EXCEPT ![r] = [st |-> "rejected", val |-> TimeoutError]]
    /\ UNCHANGED <<sideVars, delays, mgrVars, jobVars, loopVars, events, callerVars>>

\* A body that catches what its steps throw and returns an object that carries the
\* message instead (LoginHistoryModule.scrape).
SwallowsErrors(id) == id = "login-history"
\* How the promise settles when a search or click of the body found no target and
\* threw m: rejected with m, or resolved with the {success: false, error: m} object,
\* written here as the text it carries.
ScrapeThrows(id, m) ==
    IF SwallowsErrors(id) THEN [st |-> "resolved", val |-> m]
                          ELSE [st |-> "rejected", val |-> m]

\* The body returns its data, or a search or click of it finds no target and
\* throws: clearTimeout, then resolve or reject, which does nothing when the timer
\* settled the promise before.
BodyEnds(r, k) ==
    /\ body[r][k].st = "running"
    /\ IF Awaited(r, k)
       THEN \/ /\ \E raw \in RawData :
                    promise' = [promise EXCEPT ![r] = [st |-> "resolved", val |-> raw]]
               /\ body' = [body EXCEPT ![r][k] =
                     [st |-> "ended", probes |-> 0, emitted |-> 0,
                      timer |-> IF @.timer = "armed" THEN "cleared" ELSE @.timer]]
            \/ /\ \E m \in ScrapeErrors :
                    promise' = [promise EXCEPT ![r] = ScrapeThrows(ModuleAt(r, k), m)]
               /\ body' = [body EXCEPT ![r][k] =
                     [st |-> "navfailed", probes |-> 0, emitted |-> 0,
                      timer |-> IF @.timer = "armed" THEN "cleared" ELSE @.timer]]
       ELSE /\ UNCHANGED promise
            /\ body' = [body EXCEPT ![r][k] =
                  [st |-> "ended", probes |-> 0, emitted |-> 0, timer |-> @.timer]]
    /\ UNCHANGED <<sideVars, delays, mgrVars, jobVars, loopVars, events, callerVars>>

\* The steps of the runs in progress, and the cancel message.
RunStep ==
    \/ CancelExtraction
    \/ \E r \in RunIds : Initialize(r)
    \/ \E r \in RunIds : Validate(r)
    \/ \E r \in RunIds : CheckValidation(r)
    \/ \E r \in RunIds, k \in Positions : TabsGet(r, k)
    \/ \E r \in RunIds, k \in Positions : PageProbe(r, k)
    \/ \E r \in RunIds, k \in Positions : EmitProgress(r, k)
    \/ \E r \in RunIds, k \in Positions : TimerFires(r, k)
    \/ \E r \in RunIds, k \in Positions : BodyEnds(r, k)
    \/ \E r \in RunIds : AfterScrape(r)
    \/ \E r \in RunIds : DownloadSettles(r)
    \/ \E r \in RunIds : AfterCompletion(r)
    \/ \E r \in RunIds : DelayElapsed(r)

\* One extraction: start messages keep arriving, the first one is served, the later
\* ones find the run active or come after the bound.
Next ==
    \/ \E ids \in RequestsUpTo(MaxLen) : nextRun = 1 /\ StartExtraction(ids)
    \/ StartIgnored
    \/ RunStep

Spec == Init /\ [][Next]_vars

\* Extractions that may overlap: every start message that finds the active flag
\* lowered starts a run, up to MaxOverlap of them.
NextOverlap ==
    \/ \E ids \in RequestsUpTo(MaxLenOverlap) : nextRun <= MaxOverlap /\ StartExtraction(ids)
    \/ StartIgnored
    \/ RunStep

SpecOverlap == Init /\ [][NextOverlap]_vars

\* Extractions of the login-history module alone, up to MaxRuns of them: a run may
\* start when a cancel or the end of another run has lowered the active flag.
NextHandover ==
    \/ StartExtraction(<<"login-history">>)
    \/ StartIgnored
    \/ CancelExtraction
    \/ \E r \in RunIds : Initialize(r)
    \/ \E r \in RunIds : Validate(r)
    \/ \E r \in RunIds : CheckValidation(r)
    \/ \E r \in RunIds, k \in Positions : BodyEnds(r, k)
    \/ \E r \in RunIds : AfterScrape(r)
    \/ \E r \in RunIds : AfterCompletion(r)
    \/ \E r \in RunIds : DelayElapsed(r)

SpecHandover == Init /\ [][NextHandover]_vars

\* What a completion callback may throw.
HandlerErrors == {"popup unreachable"}
\* The completion callback throws after its download was asked for (sendMessageToPopup
\* throws, in its try block and again in its catch block), so its promise rejects.
\* Called from the try block of the loop, the throw is caught and logged there;
\* called from the catch block, nothing catches it: executeEnabledModules rejects and
\* startExtraction takes its error path.
HandlerThrows(r) ==
    /\ pc[r] = "cb"
    /\ hpc[r] = "download"
    /\ hpc' = [hpc EXCEPT ![r] = "threw"]
    /\ IF Last(results[r]).success
       THEN UNCHANGED <<pc, popup, isExtractionActive, currentExtractionJob>>
       ELSE /\ pc' = [pc EXCEPT ![r] = "error"]
            /\ \E m \in HandlerErrors : FailRun(r, popup[r], m)
    /\ UNCHANGED <<sideVars, delays, mgrVars, moduleIds, cancelled, nextRun, enabledModules,
                   current, results, validation, scrapeVars, events, completedCount,
                   downloads>>

Ended(r) == pc[r] \in {"done", "error"}

\* Extractions one after another, with a completion callback that may throw: a start
\* message is served when no run was started yet or when the run before has ended.
NextHandler ==
    \/ \E ids \in RequestsUpTo(MaxLenOverlap) :
          (nextRun = 1 \/ (nextRun = 2 /\ Ended(1))) /\ StartExtraction(ids)
    \/ StartIgnored
    \/ CancelExtraction
    \/ \E r \in RunIds : Initialize(r)
    \/ \E r \in RunIds : Validate(r)
    \/ \E r \in RunIds : CheckValidation(r)
    \/ \E r \in RunIds, k \in Positions : BodyEnds(r, k)
    \/ \E r \in RunIds : AfterScrape(r)
    \/ \E r \in RunIds : DownloadSettles(r)
    \/ \E r \in RunIds : HandlerThrows(r)
    \/ \E r \in RunIds : AfterCompletion(r)
    \/ \E r \in RunIds : DelayElapsed(r)

SpecHandler == Init /\ [][NextHandler]_vars

(***************************************************************************)
(* The registry on its own: registerModule and enableModules calls in any  *)
(* order, on the manager as the service worker set it up.                  *)
(***************************************************************************)
\* registerModule(id, moduleInstance) with a newly constructed instance, which is
\* disabled (BaseModule's constructor); an instance already registered under the
\* id is overwritten.
RegisterModule(id) ==
    /\ nextInstance <= MaxInstances
    /\ modules' = SetModule(modules, id, nextInstance)
    /\ isEnabled' = [x \in DOMAIN modules \cup {id} |->
                        IF x = id THEN FALSE ELSE isEnabled[x]]
    /\ nextInstance' = nextInstance + 1
    /\ lastCall' = [NoCall EXCEPT !.op = "registerModule", !.id = id,
                                  !.instance = nextInstance,
                                  !.old = GetModule(modules, id)]
    /\ UNCHANGED <<executionOrder, jobVars, loopVars, scrapeVars, events, callerVars,
                   sideVars, delays>>

\* enableModules(moduleIds), called on the manager directly.
EnableModulesCall(ids) ==
    /\ EnableModules(ids)
    /\ UNCHANGED <<jobVars, loopVars, scrapeVars, events, callerVars, sideVars, delays>>

NextRegistry ==
    \/ \E id \in RequestIds : RegisterModule(id)
    \/ \E ids \in RequestsUpTo(MaxLen) \cup {<<>>} : EnableModulesCall(ids)

SpecRegistry == Init /\ [][NextRegistry]_vars

\* One extraction, while enableModules is called on the manager from elsewhere.
NextSnapshot ==
    \/ \E ids \in RequestsUpTo(MaxLen) : nextRun = 1 /\ StartExtraction(ids)
    \/ \E ids \in RequestsUpTo(MaxLen) : nextRun > 1 /\ EnableModulesCall(ids)
    \/ CancelExtraction
    \/ \E r \in RunIds : Initialize(r)
    \/ \E r \in RunIds : Validate(r)
    \/ \E r \in RunIds : CheckValidation(r)
    \/ \E r \in RunIds, k \in Positions : BodyEnds(r, k)
    \/ \E r \in RunIds : AfterScrape(r)
    \/ \E r \in RunIds : DownloadSettles(r)
    \/ \E r \in RunIds : AfterCompletion(r)
    \/ \E r \in RunIds : DelayElapsed(r)

SpecSnapshot == Init /\ [][NextSnapshot]_vars

(***************************************************************************)
(* ProfilesModule.scrape, step 2: the loop over the profile links, and the *)
(* scrapeProfile call of each link, which opens an auxiliary tab for the   *)
(* profile page, arms a 120 s timer, probes the page and removes the tab.  *)
(* The body of a call whose timer fired runs on, like every async body.    *)
(***************************************************************************)
Links == 1..MaxProfiles
ProfileTimeoutError == "Timeout: Operation took too long"
NoViewUsersError == "View Users button not found"
ProfileData == "profile"
engineVars == <<mgrVars, jobVars, loopVars, scrapeVars, events, delays, callerVars>>
mainVars == <<engineVars, fmtVars, stepVars, pageVars>>

\* resolve(...) or reject(...) of the call's promise: nothing once it has settled.
Settle(p, st, val) == IF p.st = "pending" THEN [p EXCEPT !.st = st, !.val = val] ELSE p
\* clearTimeout(timeout)
ClearTimeout(p) == IF p.timer = "armed" THEN [p EXCEPT !.timer = "cleared"] ELSE p
\* A removal that is never asked for.
TabsRemove_Forgotten(p) == p
\* chrome.tabs.remove(tab.id) is called: the browser starts to close the tab.
TabsRemove(p) == IF p.tab = "open" THEN [p EXCEPT !.tab = "closing"] ELSE p

\* The loop calls scrapeProfile(url) for the next link, after the one before has
\* settled and its record is pushed: the executor runs up to `await chrome.tabs.create`.
ScrapeProfile ==
    /\ link < MaxProfiles
    /\ Len(scrapedData) = link
    /\ link' = link + 1
    /\ profile' = [profile EXCEPT ![link + 1].pc = "create"]
    /\ UNCHANGED <<scrapedData, mainVars>>

\* chrome.tabs.create settles: the tab is there and the 120 s timer is armed, or
\* the outer catch rejects (there is no tab to remove).
TabsCreate(i) ==
    /\ profile[i].pc = "create"
    /\ \/ profile' = [profile EXCEPT ![i].pc = "load", ![i].tab = "open",
                                      ![i].timer = "armed"]
       \/ \E m \in StepErrors :
             profile' = [profile EXCEPT ![i] = Settle([@ EXCEPT !.pc = "ended"],
                                                      "rejected", m)]
    /\ UNCHANGED <<link, scrapedData, mainVars>>

\* onUpdated reports status 'complete' for the tab: the listener starts probing.
PageLoaded(i) ==
    /\ profile[i].pc = "load"
    /\ profile[i].tab \in {"open", "closing"}
    /\ profile' = [profile EXCEPT ![i].pc = "probe"]
    /\ UNCHANGED <<link, scrapedData, mainVars>>

\* The executeScript calls of the listener: they all return and the users are
\* counted, or the 'View Users' button is not found, or one of them throws.
ProfileProbes(i) ==
    /\ profile[i].pc = "probe"
    /\ \/ /\ profile[i].tab # "closed"
          /\ \E to \in {"remove", "remove-nobutton"} :
                profile' = [profile EXCEPT ![i] =
                    TabsRemove(ClearTimeout([@ EXCEPT !.pc = to]))]
       \/ \E m \in StepErrors :
             profile' = [profile EXCEPT ![i] =
                 Settle(TabsRemove(ClearTimeout([@ EXCEPT !.pc = "ended"])),
                        "rejected", m)]
    /\ UNCHANGED <<link, scrapedData, mainVars>>

\* The browser has closed a tab it was asked to remove.
TabCloses(i) ==
    /\ profile[i].tab = "closing"
    /\ profile' = [profile EXCEPT ![i].tab = "closed"]
    /\ UNCHANGED <<link, scrapedData, mainVars>>

\* `await chrome.tabs.remove(tab.id)` returns, the tab being gone: resolve with the
\* profile's record, which carries an error when the button was not found.
RemoveSettles(i) ==
    /\ profile[i].pc \in {"remove", "remove-nobutton"}
    /\ profile[i].tab = "closed"
    /\ profile' = [profile EXCEPT ![i] =
          Settle([@ EXCEPT !.pc = "ended"], "resolved",
                 IF @.pc = "remove" THEN ProfileData ELSE NoViewUsersError)]
    /\ UNCHANGED <<link, scrapedData, mainVars>>

\* The 120 s timer fires: the tab's removal is asked for and the promise rejected.
ProfileTimerFires(i) ==
    /\ profile[i].timer = "armed"
    /\ profile' = [profile EXCEPT ![i] =
          Settle(TabsRemove([@ EXCEPT !.timer = "fired"]), "rejected",
                 ProfileTimeoutError)]
    /\ UNCHANGED <<link, scrapedData, mainVars>>

\* A loop that puts each record in front of the ones before.
AfterScrapeProfile_Unshift ==
    /\ link > 0
    /\ Len(scrapedData) = link - 1
    /\ profile[link].st # "pending"
    /\ scrapedData' = <<[link |-> link, profileName |-> IF profile[link].st = "resolved"
                                                       THEN ProfileData ELSE "ERROR",
                         error |-> IF profile[link].val = ProfileData
                                   THEN "" ELSE profile[link].val]>> \o scrapedData
    /\ UNCHANGED <<link, profile, mainVars>>
\* `await this.scrapeProfile(url)` returns or throws: the record, or an error record,
\* is pushed.
AfterScrapeProfile ==
    /\ link > 0
    /\ Len(scrapedData) = link - 1
    /\ profile[link].st # "pending"
    /\ scrapedData' = Append(scrapedData,
          [link |-> link, profileName |-> IF profile[link].st = "resolved"
                                          THEN ProfileData ELSE "ERROR",
           error |-> IF profile[link].val = ProfileData THEN "" ELSE profile[link].val])
    /\ UNCHANGED <<link, profile, mainVars>>

NextProfile ==
    \/ ScrapeProfile
    \/ \E i \in Links : TabsCreate(i)
    \/ \E i \in Links : PageLoaded(i)
    \/ \E i \in Links : ProfileProbes(i)
    \/ \E i \in Links : TabCloses(i)
    \/ \E i \in Links : RemoveSettles(i)
    \/ \E i \in Links : ProfileTimerFires(i)
    \/ AfterScrapeProfile

SpecProfile == Init /\ [][NextProfile]_vars

(***************************************************************************)
(* formatData and getFilename of the module classes. A string is written   *)
(* as the sequence of its pieces, the tab character being a piece of its   *)
(* own; a text is the sequence of its lines, each one ended by '\n' in the *)
(* code.                                                                   *)
(***************************************************************************)
\* The seconds the clock runs through, the formatData calls followed, and the rows
\* of a scraped table.
MaxClock == 1
MaxCalls == 2
MaxRows == 1

Tab == "\t"
\* The value undefined of a property that is missing; no page text equals it.
Undefined == <<"#undefined">>
\* The trimmed text of a table cell: it may be empty, and it may hold a tab inside.
Cells == {<<>>, <<"x">>, <<"x", Tab, "y">>}

\* v || d, v ?? d, `${v}`, and what Array.prototype.join writes for an element.
OrElse(v, d) == IF v = Undefined \/ v = <<>> THEN d ELSE v
Nullish(v, d) == IF v = Undefined THEN d ELSE v
Str(v) == IF v = Undefined THEN <<"undefined">> ELSE v
JoinItem(v) == IF v = Undefined THEN <<>> ELSE v
YesNo(b) == IF b THEN <<"Yes">> ELSE <<"No">>

\* fields.join('\t')
RECURSIVE Join(_)
Join(fields) ==
    IF fields = <<>> THEN <<>>
    ELSE IF Len(fields) = 1 THEN JoinItem(fields[1])
    ELSE JoinItem(Head(fields)) \o <<Tab>> \o Join(Tail(fields))

\* c.repeat(n)
RECURSIVE Repeat(_, _)
Repeat(c, n) == IF n = 0 THEN "" ELSE c \o Repeat(c, n - 1)
Rule(n) == <<Repeat("=", n)>>

\* new Date().toLocaleString(): the text of the second the clock shows.
ToLocaleString(now) == <<ToString(now)>>
GeneratedLine(now) == <<"Generated: ">> \o ToLocaleString(now)

\* The lines a list of rows is written as.
Lines(rows, RowLine(_)) == [i \in 1..Len(rows) |-> RowLine(rows[i])]
SeqsUpTo(S, n) == UNION {[1..k -> S] : k \in 0..n}

\* SandboxesModule: the data scrape returns, and formatData.
SandboxLicenses ==
    {[type |-> <<"Full Sandbox">>, used |-> u, allowance |-> u] : u \in {<<>>, <<"1">>}}
SandboxRows ==
    {[name |-> <<"dev1">>, type |-> <<"Developer">>, status |-> <<"Completed">>,
      location |-> <<"CS1">>, releaseType |-> <<"Preview">>, currentOrgId |-> <<"00D">>,
      completedOn |-> <<"1/1/2026">>, description |-> c, copiedFrom |-> <<"Production">>]
     : c \in Cells}
SandboxesData ==
    {[licenses |-> ls, rows |-> rs] :
        ls \in SeqsUpTo(SandboxLicenses, MaxRows), rs \in SeqsUpTo(SandboxRows, MaxRows)}
SandboxLicensesHeader == <<"Type", Tab, "Used", Tab, "Allowance">>
SandboxLicenseLine(l) ==
    OrElse(l.type, <<>>) \o <<Tab>> \o Str(Nullish(l.used, <<>>)) \o <<Tab>>
        \o Str(Nullish(l.allowance, <<>>))
SandboxRowsHeader ==
    <<"Name", Tab, "Type", Tab, "Status", Tab, "Location", Tab, "Release Type", Tab,
      "Current Org Id", Tab, "Completed On", Tab, "Description", Tab, "Copied From">>
SandboxRowLine(row) ==
    Join(<<OrElse(row.name, <<>>), OrElse(row.type, <<>>), OrElse(row.status, <<>>),
           OrElse(row.location, <<>>), OrElse(row.releaseType, <<>>),
           OrElse(row.currentOrgId, <<>>), OrElse(row.completedOn, <<>>),
           OrElse(row.description, <<>>), OrElse(row.copiedFrom, <<>>)>>)
SandboxesFormatData(data, now) ==
    << <<"SANDBOXES REPORT">>, GeneratedLine(now),
       <<"Source: Setup > Environments > Sandboxes">>, <<>>,
       Rule(100), <<"AVAILABLE SANDBOX LICENSES">>, Rule(100), <<>>,
       SandboxLicensesHeader >>
    \o Lines(data.licenses, SandboxLicenseLine)
    \o << <<>>, Rule(100), <<"SANDBOXES (FULL TABLE)">>, Rule(100), <<>>,
          SandboxRowsHeader >>
    \o Lines(data.rows, SandboxRowLine)

\* HealthCheckModule: the data scrapeHealthCheckDataFunc returns, and formatData.
HealthSettings ==
    {[status |-> <<"Critical">>, setting |-> <<"Minimum password length">>,
      group |-> <<"Password Policies">>, yourValue |-> c, standardValue |-> <<"8">>]
     : c \in Cells \cup {Undefined}}
HealthData ==
    {[percentage |-> p, settings |-> ss, highRisk |-> ss, mediumRisk |-> <<>>,
      lowRisk |-> <<>>, informational |-> <<>>,
      tables |-> IF ts THEN <<[title |-> <<"High-Risk Security Settings">>,
                               settings |-> ss]>>
                 ELSE <<>>, error |-> <<>>] :
        p \in {<<>>, <<"0%">>, <<"N/A">>, <<"85%">>},
        ss \in SeqsUpTo(HealthSettings, MaxRows), ts \in BOOLEAN}
HealthHeader ==
    <<"STATUS", Tab, "SETTING", Tab, "GROUP", Tab, "YOUR VALUE", Tab, "STANDARD VALUE">>
HealthRowLine(s) ==
    OrElse(s.status, <<"N/A">>) \o <<Tab>> \o OrElse(s.setting, <<"N/A">>) \o <<Tab>>
        \o OrElse(s.group, <<"N/A">>) \o <<Tab>> \o OrElse(s.yourValue, <<"N/A">>)
        \o <<Tab>> \o OrElse(s.standardValue, <<"N/A">>)
\* (title).toUpperCase() of the section titles the page shows.
ToUpperCase(title) ==
    IF title = <<"High-Risk Security Settings">> THEN <<"HIGH-RISK SECURITY SETTINGS">>
    ELSE title
HealthSection(title, rows) ==
    <<Rule(100), title, Rule(100), <<>>, HealthHeader>> \o Lines(rows, HealthRowLine)
        \o << <<>> >>
HealthTableSection(t) ==
    HealthSection(ToUpperCase(OrElse(t.title, <<"Security Settings">>)), t.settings)
RECURSIVE Flatten(_)
Flatten(seqs) == IF seqs = <<>> THEN <<>> ELSE Head(seqs) \o Flatten(Tail(seqs))
HealthCheckFormatData(data, now) ==
    << <<"HEALTH CHECK REPORT">>, GeneratedLine(now),
       <<"Health Check Score: ">> \o OrElse(data.percentage, <<"N/A">>), <<>> >>
    \o IF Len(data.tables) > 0
       THEN Flatten([i \in 1..Len(data.tables) |-> HealthTableSection(data.tables[i])])
       ELSE HealthSection(<<"HIGH-RISK SECURITY SETTINGS">>, data.highRisk)
            \o HealthSection(<<"MEDIUM-RISK SECURITY SETTINGS">>, data.mediumRisk)
            \o HealthSection(<<"LOW-RISK SECURITY SETTINGS">>, data.lowRisk)
            \o HealthSection(<<"INFORMATIONAL SECURITY SETTINGS">>, data.informational)

\* ProfilesModule: the records scrape collects, and formatData.
ProfileRecords ==
    {[profileName |-> n, userLicense |-> <<"Salesforce">>, profileType |-> <<"Standard">>,
      activeUserCount |-> c, modifyAllData |-> b, runReports |-> TRUE,
      exportReports |-> FALSE] :
        n \in {<<>>, <<"System Administrator">>}, c \in {Undefined, <<"3">>},
        b \in BOOLEAN}
ProfilesData == SeqsUpTo(ProfileRecords, MaxRows)
ProfilesHeader ==
    <<"Profile Name", Tab, "User License", Tab, "Profile Type", Tab, "Active Users", Tab,
      "Modify All Data", Tab, "Run Reports", Tab, "Export Reports">>
ProfileLine(p) ==
    OrElse(p.profileName, <<"N/A">>) \o <<Tab>> \o OrElse(p.userLicense, <<"Unknown">>)
        \o <<Tab>> \o OrElse(p.profileType, <<"Unknown">>) \o <<Tab>>
        \o Str(Nullish(p.activeUserCount, <<"0">>)) \o <<Tab>> \o YesNo(p.modifyAllData)
        \o <<Tab>> \o YesNo(p.runReports) \o <<Tab>> \o YesNo(p.exportReports)
ProfilesFormatData(data, now) ==
    << <<"PROFILE INFORMATION REPORT">>, GeneratedLine(now), <<>>, ProfilesHeader >>
    \o Lines(data, ProfileLine)

\* StorageModule: the tables scrapeStorageUsageFullFunc returns, and formatData. A
\* data row holds the cells its <tr> has, which need not be as many as the header's.
\* (The dash of the two PART titles is written - here.)
StorageHeaders == {<<>>, <<<<"Storage Type">>, <<"Limit">>, <<"Used">>>>}
StorageRows ==
    {<<<<"Data Storage">>, c, <<"1 GB">>>> : c \in Cells}
        \cup {<<<<"File Storage">>, <<"2 GB">>>>}
StorageTables == [headers : StorageHeaders, rows : SeqsUpTo(StorageRows, MaxRows)]
NoStorageTable == [headers |-> <<>>, rows |-> <<>>]
StorageData ==
    [overview : StorageTables, dataStorageObjects : {NoStorageTable},
     fileStorageObjects : {NoStorageTable}]
StorageTableLines(t) ==
    (IF Len(t.headers) > 0 THEN <<Join(t.headers)>> ELSE <<>>) \o Lines(t.rows, Join)
StorageFormatData(data, now) ==
    << <<"STORAGE USAGE REPORT">>, GeneratedLine(now),
       <<"Source: Setup > Data > Storage Usage">>, <<>>,
       Rule(100), <<"PART A - STORAGE OVERVIEW (GLOBAL LIMITS)">>, Rule(100),
       <<"Columns: Storage Type, Limit, Used, Percentage Used">>, <<>> >>
    \o StorageTableLines(data.overview)
    \o << <<>>, Rule(100), <<"PART B - DATA STORAGE OBJECTS (ALL ROWS)">>, Rule(100),
          <<>> >>
    \o StorageTableLines(data.dataStorageObjects)
    \o << <<>>, Rule(100), <<"PART B - FILE STORAGE OBJECTS (ALL ROWS)">>, Rule(100),
          <<>> >>
    \o StorageTableLines(data.fileStorageObjects)

\* SensitiveDataModule: scrape puts the time into the data; formatData writes it out.
SensitiveData ==
    {[status |-> <<"not_implemented">>,
      message |-> <<"Sensitive Data module is not yet implemented">>,
      timestamp |-> <<ToString(t)>>] : t \in 0..MaxClock}
SensitiveDataFormatData(data, now) ==
    << <<"SENSITIVE DATA REPORT">>, Rule(80), <<>>,
       <<"Status: ">> \o Str(data.status), <<"Message: ">> \o Str(data.message),
       <<"Timestamp: ">> \o Str(data.timestamp), <<>>,
       <<"This module is a placeholder and will be implemented in a future update.">> >>

\* LoginHistoryModule: the object scrape returns; formatData returns ''.
LoginHistoryData ==
    {[success |-> TRUE, message |-> <<"Login History CSV download initiated successfully">>],
     [success |-> FALSE, error |-> <<"Search failed: Search input not found">>]}
LoginHistoryFormatData(data, now) == <<>>

\* The module classes whose formatData is followed, and the raw data of each.
Formatters ==
    {"sandboxes", "health-check", "profiles", "storage", "sensitive-data",
     "login-history"}
RawDataOf(m) ==
    CASE m = "sandboxes" -> SandboxesData
      [] m = "health-check" -> HealthData
      [] m = "profiles" -> ProfilesData
      [] m = "storage" -> StorageData
      [] m = "sensitive-data" -> SensitiveData
      [] m = "login-history" -> LoginHistoryData
\* module.formatData(data), called when the clock shows `now`.
FormatDataAt(m, data, now) ==
    CASE m = "sandboxes" -> SandboxesFormatData(data, now)
      [] m = "health-check" -> HealthCheckFormatData(data, now)
      [] m = "profiles" -> ProfilesFormatData(data, now)
      [] m = "storage" -> StorageFormatData(data, now)
      [] m = "sensitive-data" -> SensitiveDataFormatData(data, now)
      [] m = "login-history" -> LoginHistoryFormatData(data, now)

otherVars == <<engineVars, profVars, stepVars, pageVars>>

\* A second passes.
ClockTick ==
    /\ clock < MaxClock
    /\ clock' = clock + 1
    /\ UNCHANGED <<formatted, filenames, otherVars>>

\* module.formatData(data) is called and returns its text.
FormatDataCall(m, data) ==
    /\ Len(formatted) < MaxCalls
    /\ formatted' = Append(formatted,
          [module |-> m, data |-> data, text |-> FormatDataAt(m, data, clock)])
    /\ UNCHANGED <<clock, filenames, otherVars>>

\* The nine module classes the service worker registers, and the name each hands to
\* BaseModule's constructor.
ModuleClasses ==
    {"licenses", "profiles", "general-info", "health-check", "storage", "sandboxes",
     "sharing-settings", "sensitive-data", "login-history"}
ClassName(m) ==
    CASE m = "licenses" -> <<"Licenses">>
      [] m = "profiles" -> <<"Profiles">>
      [] m = "general-info" -> <<"General", " ", "Information">>
      [] m = "health-check" -> <<"Health", " ", "Check">>
      [] m = "storage" -> <<"Storage">>
      [] m = "sandboxes" -> <<"Sandboxes">>
      [] m = "sharing-settings" -> <<"Sharing", " ", "Settings">>
      [] m = "sensitive-data" -> <<"Sensitive", " ", "Data">>
      [] m = "login-history" -> <<"Login", " ", "History">>
\* toLowerCase(), on the words the names are made of.
ToLowerCase(w) ==
    CASE w = "Licenses" -> "licenses" [] w = "Profiles" -> "profiles"
      [] w = "General" -> "general" [] w = "Information" -> "information"
      [] w = "Health" -> "health" [] w = "Check" -> "check"
      [] w = "Storage" -> "storage" [] w = "Sandboxes" -> "sandboxes"
      [] w = "Sharing" -> "sharing" [] w = "Settings" -> "settings"
      [] w = "Sensitive" -> "sensitive" [] w = "Data" -> "data"
      [] w = "Login" -> "login" [] w = "History" -> "history"
      [] OTHER -> w
\* BaseModule.getFilename: this.name.toLowerCase().replace(/\s+/g, '-')
BaseGetFilename(name) ==
    [i \in DOMAIN name |-> IF name[i] = " " THEN "-" ELSE ToLowerCase(name[i])]
\* The classes that have a getFilename of their own, and the literal each returns.
OwnGetFilename(m) ==
    CASE m = "licenses" -> <<"1", "_", "licenses">>
      [] m = "profiles" -> <<"2", "_", "profiles">>
      [] m = "general-info" -> <<"3", "_", "general_info">>
      [] m = "health-check" -> <<"4", "_", "health_check">>
      [] m = "storage" -> <<"5", "_", "storage">>
      [] m = "sandboxes" -> <<"6", "_", "sandboxes">>
      [] m = "sharing-settings" -> <<"7", "_", "sharing_settings">>
      [] m = "login-history" -> <<"8", "_", "login_history">>
Overriders == ModuleClasses \ {"sensitive-data"}
\* A getFilename that numbers the files by the reports formatted before.
GetFilename_Numbered(m) ==
    (IF m \in Overriders THEN OwnGetFilename(m) ELSE BaseGetFilename(ClassName(m)))
        \o (IF formatted = <<>> THEN <<>> ELSE <<"_", ToString(Len(formatted))>>)
\* module.getFilename(): the class's own, or BaseModule's when the class has none.
GetFilename(m) ==
    IF m \in Overriders THEN OwnGetFilename(m) ELSE BaseGetFilename(ClassName(m))

\* module.getFilename() is called, after the formatData calls made so far.
GetFilenameCall(m) ==
    /\ filenames' = filenames \cup {[module |-> m, value |-> GetFilename(m)]}
    /\ UNCHANGED <<clock, formatted, otherVars>>

\* formatData calls of any module on any raw data, while time passes.
NextFormat ==
    \/ ClockTick
    \/ \E m \in Formatters : \E data \in RawDataOf(m) : FormatDataCall(m, data)

SpecFormat == Init /\ [][NextFormat]_vars

\* getFilename calls of the nine modules, between the formatData calls of two of them.
NextFilename ==
    \/ \E m \in {"sensitive-data", "login-history"} :
          \E data \in RawDataOf(m) : FormatDataCall(m, data)
    \/ \E m \in ModuleClasses : GetFilenameCall(m)

SpecFilename == Init /\ [][NextFilename]_vars

(***************************************************************************)
(* The scrape bodies of HealthCheckModule, SandboxesModule and             *)
(* GeneralInfoModule, await by await.                                      *)
(***************************************************************************)
\* Constants of HealthCheckModule.scrape.
INITIAL_PAGE_LOAD_MS == 12000
maxRetries == 6
MAX_SCRAPE_ATTEMPTS == 3
RETRY_WAIT_MS == 10000

\* The modules whose scrape is followed step by step.
StepModules == {"health-check", "sandboxes", "general-info"}
\* How a chrome.scripting.executeScript call ends: a result that says success, a
\* result that does not, or a rejection.
Outcomes == {"ok", "fail", "threw"}

\* The entries of the trace: a page call with how it ended (and, for a scrape of the
\* health-check page, what it returned), and a delay(ms) call.
PageCall(o, r) == [op |-> o, ms |-> 0, res |-> r, data |-> NoData]
ScrapeCall(r, d) == [op |-> "scrape", ms |-> 0, res |-> r, data |-> d]
DelayCall(ms) == [op |-> "delay", ms |-> ms, res |-> "ok", data |-> NoData]

\* reject(new Error(m)) and resolve(d): a promise settles once.
Reject(p, m) == IF p.st = "none" THEN [st |-> "rejected", val |-> m, data |-> NoData] ELSE p
Resolve(p, d) == IF p.st = "none" THEN [st |-> "resolved", val |-> "", data |-> d] ELSE p
\* clearTimeout(timeout)
ClearTimer(t) == IF t = "armed" THEN "cleared" ELSE t

\* What scrapeHealthCheckDataFunc returns: null (no result), a score with the rows
\* it found (all rows in settings, those under a high-risk or medium-risk title in
\* highRisk or mediumRisk as well), or the object of its catch block.
Percentages == {"", "0%", "N/A", "85%"}
RowCounts == {<<0, 0, 0>>, <<1, 0, 0>>, <<1, 1, 0>>, <<1, 0, 1>>}
ScrapeError == [isNull |-> FALSE, percentage |-> "Error", settings |-> 0, highRisk |-> 0,
                mediumRisk |-> 0, error |-> "script failed"]
HealthResults ==
    {NoData, ScrapeError} \cup
    {[isNull |-> FALSE, percentage |-> p, settings |-> n[1], highRisk |-> n[2],
      mediumRisk |-> n[3], error |-> ""] : p \in Percentages, n \in RowCounts}
\* How a scrape attempt ends: a result, the 75 s timer of its Promise.race, or a
\* rejection of executeScript.
ScrapeOutcomes ==
    {[kind |-> "result", data |-> d] : d \in HealthResults} \cup
    {[kind |-> "timed out", data |-> NoData], [kind |-> "threw", data |-> NoData]}

\* looksLikeNoData, deaf to the rows.
LooksLikeNoData_ScoreOnly(data) ==
    \/ data.isNull
    \/ data.percentage \in {"0%", "N/A", ""}
\* looksLikeNoData(data)
LooksLikeNoData(data) ==
    \/ data.isNull
    \/ /\ data.percentage \in {"0%", "N/A", ""}
       /\ ~(data.settings > 0 \/ data.highRisk > 0 \/ data.mediumRisk > 0)

\* The condition of the polling loop and what follows the loop.
WhileTables(found, n) ==
    IF ~found /\ n < maxRetries THEN "probe"
    ELSE IF found THEN "expand" ELSE "scrape"
\* After a probe, with a wait after the last probe too.
AfterProbe_AlwaysWaits(ready, n) ==
    IF ready THEN "expand" ELSE "pollwait"
\* After probe number n: break when ready, else wait if a probe is left.
AfterProbe(ready, n) ==
    IF ready THEN "expand"
    ELSE IF n < maxRetries THEN "pollwait" ELSE WhileTables(FALSE, n)

\* The steps that are a delay(ms) call, their ms and the step after them.
DelaySteps == {"wait", "load", "pollwait", "expanded", "settle", "retrywait",
               "dueSoonWait", "overdueWait"}
DelayMs(m, s, st) ==
    CASE st = "load" -> (CASE m = "health-check" -> INITIAL_PAGE_LOAD_MS
                           [] m = "sandboxes" -> 10000
                           [] m = "general-info" /\ s = 1 -> 6000
                           [] OTHER -> 5000)
      [] st = "pollwait" -> 5000
      [] st = "settle" -> 8000
      [] st = "retrywait" -> RETRY_WAIT_MS
      [] OTHER -> 2000
AfterDelay(m, s, st) ==
    CASE st = "wait" -> IF m = "general-info" /\ s \in {3, 4} THEN "check" ELSE "click"
      [] st = "load" -> (CASE m = "health-check" -> WhileTables(FALSE, 0)
                           [] m = "general-info" /\ s = 4 -> "dueSoon"
                           [] OTHER -> "scrape")
      [] st = "pollwait" -> WhileTables(tablesFound, retryCount)
      [] st = "expanded" -> "settle"
      [] st = "settle" -> "scrape"
      [] st = "retrywait" -> "scrape"
      [] st = "dueSoonWait" -> "dueSoonCheck"
      [] OTHER -> "overdueCheck"

restVars == <<engineVars, profVars, fmtVars, pageVars>>

\* manager: module.scrape(context) is called.
ScrapeStarts(m) ==
    /\ scraping = "none" /\ step = "idle"
    /\ scraping' = m
    /\ step' = IF m = "health-check" THEN "tabs.get" ELSE "search"
    /\ section' = IF m = "general-info" THEN 1 ELSE 0
    /\ UNCHANGED <<trace, retryCount, tablesFound, attempt, healthCheckData, timeout,
                   settled, restVars>>

\* GeneralInfoModule: a section returns (or its catch block ends); the next section
\* starts, and after the last one scrape returns this.data.
EndSection ==
    IF section < 4
    THEN /\ section' = section + 1
         /\ step' = "search"
         /\ UNCHANGED <<timeout, settled>>
    ELSE /\ step' = "returned"
         /\ settled' = Resolve(settled, NoData)
         /\ UNCHANGED <<section, timeout>>
\* A navigation step did not succeed. HealthCheckModule clears its timer, rejects
\* and returns; SandboxesModule throws 'Failed to navigate to Sandboxes';
\* GeneralInfoModule warns and leaves the section.
Abandon(m) ==
    CASE scraping = "health-check" ->
            /\ timeout' = ClearTimer(timeout)
            /\ settled' = Reject(settled, m)
            /\ step' = "returned"
            /\ UNCHANGED section
      [] scraping = "sandboxes" ->
            /\ settled' = Reject(settled, "Failed to navigate to Sandboxes")
            /\ step' = "returned"
            /\ UNCHANGED <<section, timeout>>
      [] OTHER -> EndSection

\* HealthCheckModule: the 150 s timer fires; it rejects, the body goes on.
HealthTimerFires ==
    /\ timeout = "armed"
    /\ timeout' = "fired"
    /\ settled' = Reject(settled, "Timeout: Health Check operation took too long")
    /\ UNCHANGED <<scraping, step, section, trace, retryCount, tablesFound, attempt,
                   healthCheckData, restVars>>

\* HealthCheckModule: await chrome.tabs.get, then the timer is armed.
HealthTabsGet(out) ==
    /\ scraping = "health-check" /\ step = "tabs.get"
    /\ trace' = Append(trace, PageCall("tabs.get", out))
    /\ IF out = "ok"
       THEN /\ timeout' = "armed"
            /\ step' = "search"
            /\ UNCHANGED settled
       ELSE /\ settled' = Reject(settled, "No tab with that id")
            /\ step' = "returned"
            /\ UNCHANGED timeout
    /\ UNCHANGED <<scraping, section, retryCount, tablesFound, attempt, healthCheckData,
                   restVars>>

\* await executeScript(searchFunc)
Search(out) ==
    /\ scraping \in StepModules /\ step = "search"
    /\ trace' = Append(trace, PageCall("search", out))
    /\ IF out = "ok"
       THEN /\ step' = "wait"
            /\ UNCHANGED <<section, timeout, settled>>
       ELSE Abandon("Failed to search")
    /\ UNCHANGED <<scraping, retryCount, tablesFound, attempt, healthCheckData, restVars>>

\* await this.delay(ms)
DelayStep ==
    /\ scraping \in StepModules /\ step \in DelaySteps
    /\ trace' = Append(trace, DelayCall(DelayMs(scraping, section, step)))
    /\ LET next == AfterDelay(scraping, section, step) IN
       /\ step' = next
       /\ attempt' = CASE step = "retrywait" -> attempt + 1
                       [] scraping = "health-check" /\ next = "scrape" -> 1
                       [] OTHER -> attempt
    /\ retryCount' = IF step = "load" THEN 0 ELSE retryCount
    /\ tablesFound' = IF step = "load" THEN FALSE ELSE tablesFound
    /\ UNCHANGED <<scraping, section, healthCheckData, timeout, settled, restVars>>

\* await executeScript(clickHealthCheckLinkFunc / clickElementFunc): the link of the
\* section. The first two sections of GeneralInfoModule have a second click function.
Click(out) ==
    /\ scraping \in StepModules /\ step = "click"
    /\ trace' = Append(trace, PageCall("click", out))
    /\ CASE out = "ok" ->
              /\ step' = "load"
              /\ UNCHANGED <<section, timeout, settled>>
         [] out = "fail" /\ scraping = "general-info" /\ section \in {1, 2} ->
              /\ step' = "fallback"
              /\ UNCHANGED <<section, timeout, settled>>
         [] OTHER -> Abandon("Failed to click")
    /\ UNCHANGED <<scraping, retryCount, tablesFound, attempt, healthCheckData, restVars>>

\* GeneralInfoModule: await executeScript(clickCompanyInformationLinkFunc /
\* clickSingleSignOnLinkFunc) after the first click failed.
FallbackClick(out) ==
    /\ scraping = "general-info" /\ step = "fallback"
    /\ trace' = Append(trace, PageCall("click", out))
    /\ IF out = "ok"
       THEN /\ step' = "load"
            /\ UNCHANGED <<section, timeout, settled>>
       ELSE EndSection
    /\ UNCHANGED <<scraping, retryCount, tablesFound, attempt, healthCheckData, restVars>>

\* GeneralInfoModule, Sites and Release Updates: await
\* executeScript(checkElementExistsFunc) before the click.
CheckLink(out) ==
    /\ scraping = "general-info" /\ step = "check"
    /\ trace' = Append(trace, PageCall("check", out))
    /\ IF out = "ok"
       THEN /\ step' = "click"
            /\ UNCHANGED <<section, timeout, settled>>
       ELSE EndSection
    /\ UNCHANGED <<scraping, retryCount, tablesFound, attempt, healthCheckData, restVars>>

\* GeneralInfoModule, Release Updates: the clicks on the two tabs; a tab that is not
\* found is skipped.
TabClick(out) ==
    /\ scraping = "general-info" /\ step \in {"dueSoon", "overdue"}
    /\ trace' = Append(trace, PageCall("click", out))
    /\ CASE out = "ok" ->
              /\ step' = IF step = "dueSoon" THEN "dueSoonWait" ELSE "overdueWait"
              /\ UNCHANGED <<section, timeout, settled>>
         [] out = "fail" /\ step = "dueSoon" ->
              /\ step' = "overdue"
              /\ UNCHANGED <<section, timeout, settled>>
         [] OTHER -> EndSection
    /\ UNCHANGED <<scraping, retryCount, tablesFound, attempt, healthCheckData, restVars>>

\* GeneralInfoModule, Release Updates: await executeScript(checkForAllClearFunc).
AllClear(out) ==
    /\ scraping = "general-info" /\ step \in {"dueSoonCheck", "overdueCheck"}
    /\ trace' = Append(trace, PageCall("check", out))
    /\ IF out # "threw" /\ step = "dueSoonCheck"
       THEN /\ step' = "overdue"
            /\ UNCHANGED <<section, timeout, settled>>
       ELSE EndSection
    /\ UNCHANGED <<scraping, retryCount, tablesFound, attempt, healthCheckData, restVars>>

\* SandboxesModule: await executeScript(scrapeSandboxesDataFunc), outside the try
\* block, then the normalised data is returned. GeneralInfoModule: the scrape of a
\* section, whose result or error ends the section.
Scrape(out) ==
    /\ scraping \in {"sandboxes", "general-info"} /\ step = "scrape"
    /\ trace' = Append(trace, PageCall("scrape", out))
    /\ IF scraping = "sandboxes"
       THEN /\ step' = "returned"
            /\ settled' = IF out = "threw" THEN Reject(settled, "script error")
                          ELSE Resolve(settled, NoData)
            /\ UNCHANGED <<section, timeout>>
       ELSE EndSection
    /\ UNCHANGED <<scraping, retryCount, tablesFound, attempt, healthCheckData, restVars>>

\* HealthCheckModule: one iteration of the polling loop, up to its delay.
Probe(out) ==
    /\ scraping = "health-check" /\ step = "probe"
    /\ retryCount' = retryCount + 1
    /\ trace' = Append(trace, PageCall("probe", out))
    /\ IF out = "threw"
       THEN /\ Abandon("script error")
            /\ UNCHANGED <<tablesFound, attempt>>
       ELSE LET next == AfterProbe(out = "ok", retryCount + 1) IN
            /\ tablesFound' = (out = "ok")
            /\ step' = next
            /\ attempt' = IF next = "scrape" THEN 1 ELSE attempt
            /\ UNCHANGED <<section, timeout, settled>>
    /\ UNCHANGED <<scraping, healthCheckData, restVars>>

\* HealthCheckModule: await executeScript(expandHealthCheckSectionsFunc); its result
\* is not read.
Expand(out) ==
    /\ scraping = "health-check" /\ step = "expand"
    /\ trace' = Append(trace, PageCall("expand", out))
    /\ IF out = "threw"
       THEN Abandon("script error")
       ELSE /\ step' = "expanded"
            /\ UNCHANGED <<section, timeout, settled>>
    /\ UNCHANGED <<scraping, retryCount, tablesFound, attempt, healthCheckData, restVars>>

\* HealthCheckModule: one iteration of the scrape loop, up to its delay, and the
\* code after the loop when the loop ends.
HealthScrape(o) ==
    /\ scraping = "health-check" /\ step = "scrape"
    /\ trace' = Append(trace, ScrapeCall(o.kind, o.data))
    /\ CASE o.kind # "result" ->
              /\ Abandon(o.kind)
              /\ UNCHANGED healthCheckData
         [] o.data.isNull ->
              /\ healthCheckData' = o.data
              /\ Abandon("Failed to scrape health check data - no data returned")
         [] o.data.error # "" /\ o.data.settings = 0 ->
              /\ healthCheckData' = o.data
              /\ Abandon("Health check scraping error")
         [] OTHER ->
              /\ healthCheckData' = o.data
              /\ UNCHANGED section
              /\ IF LooksLikeNoData(o.data) /\ attempt < MAX_SCRAPE_ATTEMPTS
                 THEN /\ step' = "retrywait"
                      /\ UNCHANGED <<timeout, settled>>
                 ELSE /\ step' = "returned"
                      /\ timeout' = ClearTimer(timeout)
                      /\ settled' = Resolve(settled, o.data)
    /\ UNCHANGED <<scraping, retryCount, tablesFound, attempt, restVars>>

\* One scrape call of one of the three modules, await by await.
NextScrape ==
    \/ \E m \in StepModules : ScrapeStarts(m)
    \/ HealthTimerFires
    \/ \E out \in {"ok", "threw"} : HealthTabsGet(out)
    \/ \E out \in Outcomes : Search(out)
    \/ DelayStep
    \/ \E out \in Outcomes : Click(out)
    \/ \E out \in Outcomes : FallbackClick(out)
    \/ \E out \in Outcomes : CheckLink(out)
    \/ \E out \in Outcomes : TabClick(out)
    \/ \E out \in Outcomes : AllClear(out)
    \/ \E out \in Outcomes : Scrape(out)
    \/ \E out \in Outcomes : Probe(out)
    \/ \E out \in Outcomes : Expand(out)
    \/ \E o \in ScrapeOutcomes : HealthScrape(o)

SpecScrape == Init /\ [][NextScrape]_vars

(***************************************************************************)
(* The click functions injected into the page, as functions of the page.   *)
(***************************************************************************)
\* The elements of a page a click function looks at, in document order.
MaxElements == 2
\* What a click function reads of an element: whether the specific selector (the
\* Classic id) matches it, its text if the selector list of the sweep matches it
\* (the name of the target, a text that holds the words of the name, and "other"
\* for another text or an element the sweep does not list) and its href (with the
\* name of the target, with the name and 'analytics', without).
Elements ==
    [id : BOOLEAN, text : {"exact", "loose", "other"}, href : {"match", "analytics", "none"}]
Pages == SeqsUpTo(Elements, MaxElements)
\* The first element in document order that passes the test, 0 if none does:
\* querySelector, getElementById, and a for loop that returns at its first match.
FirstMatch(p, Test(_)) ==
    IF \E i \in 1..Len(p) : Test(p[i])
    THEN CHOOSE i \in 1..Len(p) : Test(p[i]) /\ \A j \in 1..(i - 1) : ~Test(p[j])
    ELSE 0
\* el.click(); return { success: true }, and return { success: false, error }.
Clicked(i) == [success |-> TRUE, target |-> i]
NotFound == [success |-> FALSE, target |-> 0]
NoClick == [func |-> "none", page |-> <<>>, result |-> NotFound]

\* clickElementFunc(selector)
ClickElementFunc(p) ==
    LET element == FirstMatch(p, LAMBDA e : e.id) IN
    IF element # 0 THEN Clicked(element) ELSE NotFound
\* clickHealthCheckLinkFunc()
ClickHealthCheckLinkFunc(p) ==
    LET healthCheckLink == FirstMatch(p, LAMBDA e : e.id)
        el == FirstMatch(p, LAMBDA e : e.text \in {"exact", "loose"})
    IN IF healthCheckLink # 0 THEN Clicked(healthCheckLink)
       ELSE IF el # 0 THEN Clicked(el) ELSE NotFound
\* clickCompanyInformationLinkFunc() (clickSingleSignOnLinkFunc has the same shape)
ClickCompanyInformationLinkFunc(p) ==
    LET classic == FirstMatch(p, LAMBDA e : e.id)
        el == FirstMatch(p, LAMBDA e : e.text = "exact")
    IN IF classic # 0 THEN Clicked(classic)
       ELSE IF el # 0 THEN Clicked(el) ELSE NotFound
\* clickSharingSettingsLinkFunc with the sweep before the Classic id.
ClickSharingSettingsLinkFunc_TextFirst(p) ==
    LET classicLink == FirstMatch(p, LAMBDA e : e.id)
        el == FirstMatch(p, LAMBDA e : e.text = "exact")
        a == FirstMatch(p, LAMBDA e : e.href = "match")
    IN IF el # 0 THEN Clicked(el)
       ELSE IF classicLink # 0 THEN Clicked(classicLink)
       ELSE IF a # 0 THEN Clicked(a) ELSE NotFound
\* clickSharingSettingsLinkFunc()
ClickSharingSettingsLinkFunc(p) ==
    LET classicLink == FirstMatch(p, LAMBDA e : e.id)
        el == FirstMatch(p, LAMBDA e : e.text = "exact")
        a == FirstMatch(p, LAMBDA e : e.href = "match")
    IN IF classicLink # 0 THEN Clicked(classicLink)
       ELSE IF el # 0 THEN Clicked(el)
       ELSE IF a # 0 THEN Clicked(a) ELSE NotFound

\* The click functions a click step calls first.
ClickFuncs == {"clickElementFunc", "clickHealthCheckLinkFunc", "clickSharingSettingsLinkFunc"}
ClickFunc(f, p) ==
    CASE f = "clickElementFunc" -> ClickElementFunc(p)
      [] f = "clickHealthCheckLinkFunc" -> ClickHealthCheckLinkFunc(p)
      [] f = "clickCompanyInformationLinkFunc" -> ClickCompanyInformationLinkFunc(p)
      [] OTHER -> ClickSharingSettingsLinkFunc(p)

\* executeScript({func: f}) of a click step, on the page p the tab shows.
ClickCall(f, p) ==
    /\ clickCall' = [func |-> f, page |-> p, result |-> ClickFunc(f, p)]
    /\ UNCHANGED <<engineVars, profVars, fmtVars, stepVars, counting>>
\* GeneralInfoModule.scrapeCompanyInfo: the click by selector failed, so the second
\* click function is called, on the page the tab shows by then.
FallbackCall(p) ==
    /\ clickCall.func = "clickElementFunc"
    /\ ~clickCall.result.success
    /\ ClickCall("clickCompanyInformationLinkFunc", p)

\* One click step: its first call, and the second call of scrapeCompanyInfo.
NextClick ==
    \/ \E f \in ClickFuncs, p \in Pages : clickCall.func = "none" /\ ClickCall(f, p)
    \/ \E p \in Pages : FallbackCall(p)

SpecClick == Init /\ [][NextClick]_vars

(***************************************************************************)
(* ProfilesModule.countActiveUsersWithPagination, called by scrapeProfile  *)
(* on the 'View Users' page of one profile, with the 120 s timer of that   *)
(* scrapeProfile call. Time is followed as the least time that has passed  *)
(* since the timer was armed: the delays of the code add to it, the page   *)
(* calls may take any time, so the timer may fire at any step and has      *)
(* fired before a delay ends later than its due time.                      *)
(***************************************************************************)
\* The pages of users the model follows for one profile.
MaxVisits == 101
PROFILE_TIMEOUT_MS == 120000
PAGE_SETTLE_MS == 1500
VIEW_USERS_WAIT_MS == 3000
NEXT_PAGE_WAIT_MS == 3000
\* "Max Pages: 100 pages per profile (safety limit)"
MAX_PAGES == 100
\* countActiveUsersFunc: the active users counted on one page.
PageCounts == {0, 1}
countVars == <<engineVars, profVars, fmtVars, stepVars, clickCall>>

\* scrapeProfile has armed its timer, waited for the page, clicked 'View Users' and
\* waited again: it calls countActiveUsersWithPagination(tab.id).
CountStarts ==
    /\ counting.pc = "idle"
    /\ counting' = [counting EXCEPT !.pc = "count", !.tab = "open", !.timeout = "armed",
                                    !.elapsed = PAGE_SETTLE_MS + VIEW_USERS_WAIT_MS]
    /\ UNCHANGED countVars

\* The catch block of the listener after a page call threw: clearTimeout.
CountThrows(c) ==
    [c EXCEPT !.pc = "threw", !.timeout = IF @ = "armed" THEN "cleared" ELSE @]
\* A loop that stops at the page limit.
NextClicked_UpToMaxPages(c) ==
    IF c.pageNum < MAX_PAGES THEN [c EXCEPT !.pc = "delay"]
    ELSE [c EXCEPT !.pc = "returned", !.timeout = IF @ = "armed" THEN "cleared" ELSE @]
\* if (nextClicked): the loop goes to its delay.
NextClicked(c) == [c EXCEPT !.pc = "delay"]

\* executeScript(countActiveUsersFunc) returns the count of the page, or throws
\* because the tab is gone.
CountPage ==
    /\ counting.pc = "count"
    /\ IF counting.tab = "closed"
       THEN counting' = CountThrows(counting)
       ELSE \E n \in PageCounts :
               counting' = [counting EXCEPT !.pc = "next", !.totalCount = @ + n,
                                            !.visited = counting.pageNum]
    /\ UNCHANGED countVars

\* executeScript(clickNextPageButtonFunc): the page offered a 'next' control and it
\* was clicked, or not (hasNextPage = false: the function returns and scrapeProfile
\* clears its timer), or the call throws because the tab is gone.
ClickNext ==
    /\ counting.pc = "next"
    /\ IF counting.tab = "closed"
       THEN counting' = CountThrows(counting)
       ELSE \/ counting' = NextClicked(counting)
            \/ counting' = [counting EXCEPT
                  !.pc = "returned",
                  !.timeout = IF @ = "armed" THEN "cleared" ELSE @]
    /\ UNCHANGED countVars

\* await this.delay(3000) ends, pageNum++: not while the timer is armed and due.
NextPageDelay ==
    /\ counting.pc = "delay"
    /\ counting.pageNum < MaxVisits
    /\ counting.timeout = "armed" =>
          counting.elapsed + NEXT_PAGE_WAIT_MS < PROFILE_TIMEOUT_MS
    /\ counting' = [counting EXCEPT
          !.pc = "count", !.pageNum = @ + 1,
          !.elapsed = IF counting.timeout = "armed" THEN @ + NEXT_PAGE_WAIT_MS ELSE @]
    /\ UNCHANGED countVars

\* The 120 s timer of scrapeProfile fires while the count is under way: it asks
\* for the tab's removal, which the browser starts or rejects (the rejection is
\* swallowed by .catch(() => {})), and rejects the promise. The loop is not told.
CountTimerFires ==
    /\ counting.timeout = "armed"
    /\ \E t \in {"closing", "open"} :
          counting' = [counting EXCEPT !.timeout = "fired", !.tab = t,
                                       !.elapsed = PROFILE_TIMEOUT_MS]
    /\ UNCHANGED countVars

\* The browser has closed the tab it was asked to remove.
CountTabCloses ==
    /\ counting.tab = "closing"
    /\ counting' = [counting EXCEPT !.tab = "closed"]
    /\ UNCHANGED countVars

NextCount ==
    \/ CountStarts
    \/ CountPage
    \/ ClickNext
    \/ NextPageDelay
    \/ CountTimerFires
    \/ CountTabCloses

SpecCount == Init /\ [][NextCount]_vars

(***************************************************************************)
(* Properties of the run loop and of the job wrapper.                      *)
(***************************************************************************)
Executing(r) == pc[r] \notin {"idle", "done"}

\* C1: in every run the result list holds one Module Result per enabled module, the
\* i-th result carrying the i-th id of the enablement order of the run's id list,
\* whether the modules succeeded or failed: the list is a prefix of that shape while
\* the run is under way, and the whole of it when the run has returned.
C1_OneResultPerEnabledModule ==
    \A r \in RunIds :
        LET order == EnableOrder(moduleIds[r]) IN
        /\ Len(results[r]) <= Len(order)
        /\ \A i \in 1..Len(results[r]) : results[r][i].moduleId = order[i]
        /\ Len(results[r]) \in {current[r] - 1, current[r]}
        /\ pc[r] = "done" => Len(results[r]) = Len(order)
\* A run that returned two results, one of a module that failed and one of a module
\* that succeeded.
C1_Witness ==
    \E r \in RunIds :
        /\ pc[r] = "done"
        /\ Len(results[r]) = 2
        /\ results[r][1].success # results[r][2].success

\* C2: a throw of a module's initialize, validate or scrape never aborts the run:
\* the run is never left through a rejection of executeEnabledModules, and when it
\* has returned, every enabled module was started and has its result in the list.
C2_ModuleThrowNeverAborts ==
    \A r \in RunIds :
        /\ pc[r] # "error"
        /\ pc[r] = "done" =>
              /\ current[r] = Len(enabledModules[r])
              /\ Len(results[r]) = Len(enabledModules[r])
\* A run that returned after its first module threw in initialize or validate and
\* its second module threw in scrape.
C2_Witness ==
    \E r \in RunIds :
        /\ pc[r] = "done"
        /\ Len(results[r]) = 2
        /\ ~results[r][1].success /\ results[r][1].error \in StepErrors
        /\ ~results[r][2].success /\ results[r][2].error \in ScrapeErrors

\* C3: when the awaited scrape rejects with message m, the result the loop collects
\* is the failure result of that module with error m (not empty) and payload
\* "Error: " followed by m; the results collected before stay as they were, and
\* every success result is the one its module produces from its own raw data.
C3_ScrapeThrowResult ==
    /\ [](\A r \in RunIds : \A i \in 1..Len(results[r]) :
            results[r][i].success =>
                results[r][i].data = FormatData(enabledModules[r][i], results[r][i].rawData))
    /\ [][\A r \in RunIds :
            (pc[r] = "scrape" /\ promise[r].st = "rejected" /\ pc'[r] # "scrape") =>
                /\ promise[r].val # ""
                /\ results'[r] = Append(results[r],
                      [moduleId |-> enabledModules[r][current[r]],
                       moduleName |-> ModuleName(enabledModules[r][current[r]]),
                       data |-> "Error: " \o promise[r].val,
                       filename |-> Filename(enabledModules[r][current[r]]),
                       success |-> FALSE,
                       error |-> promise[r].val])]_vars
\* A run whose first module threw "link not found" in scrape and whose second
\* module succeeded.
C3_Witness ==
    \E r \in RunIds :
        /\ Len(results[r]) = 2
        /\ ~results[r][1].success
        /\ results[r][1].error = "link not found"
        /\ results[r][1].data = "Error: link not found"
        /\ results[r][2].success

\* The iteration of run r has an invalid verdict and has dealt with it.
InvalidHandled(r) == pc[r] \in {"cb", "delay"} /\ ~validation[r].valid
\* C4 (as claimed): when validate returns an invalid verdict, scrape is not called
\* for that module and its result is a failure whose error is the verdict's message.
C4_InvalidVerdictMessage ==
    \A r \in RunIds :
        InvalidHandled(r) =>
            /\ body[r][current[r]].st = "none"
            /\ ~results[r][current[r]].success
            /\ results[r][current[r]].error = validation[r].message
\* C4 (amended): when validate returns an invalid verdict, scrape is not called for
\* that module and its result is a failure whose error is the verdict's message,
\* or "Module validation failed" when the verdict carries no message.
C4_InvalidVerdictMessageOrDefault ==
    \A r \in RunIds :
        InvalidHandled(r) =>
            /\ body[r][current[r]].st = "none"
            /\ ~results[r][current[r]].success
            /\ results[r][current[r]].error =
                  IF validation[r].message = ""
                  THEN "Module validation failed"
                  ELSE validation[r].message
\* A run whose first module was invalid with a message and whose second module was
\* invalid without one; neither was scraped.
C4_Witness ==
    \E r \in RunIds :
        /\ InvalidHandled(r)
        /\ current[r] = 2
        /\ validation[r].message = ""
        /\ ~results[r][1].success /\ results[r][1].error = "page not supported"
        /\ body[r][1].st = "none" /\ body[r][2].st = "none"

\* C5: whatever start and cancel requests arrive, at most one run executes at a time.
C5_AtMostOneRunExecutes ==
    Cardinality({r \in RunIds : Executing(r)}) <= 1

\* C6: once the job of a run is cancelled, that run forwards no further progress
\* event, makes no further download and sends no MODULE_COMPLETED and no
\* EXTRACTION_COMPLETE.
C6_SilentAfterCancel ==
    [][\A r \in RunIds :
          cancelled[r] =>
              /\ downloads'[r] = downloads[r]
              /\ \/ popup'[r] = popup[r]
                 \/ Last(popup'[r]).type = "MODULE_ERROR"]_vars

\* C7: a job cancelled while its run is under way does not stop the run loop: the
\* run returns only after it has started every enabled module and collected a
\* result for each.
C7_LoopIgnoresCancel ==
    \A r \in RunIds :
        (cancelled[r] /\ pc[r] = "done") =>
            /\ current[r] = Len(enabledModules[r])
            /\ Len(results[r]) = Len(enabledModules[r])
\* A run cancelled after its first module was reported complete and before its
\* second module was announced; the second module still ran and succeeded.
C7_Witness ==
    \E r \in RunIds :
        /\ cancelled[r] /\ pc[r] = "done"
        /\ Len(results[r]) = 2 /\ results[r][2].success
        /\ Len(popup[r]) = 2
        /\ popup[r][1].type = "MODULE_STARTED"
        /\ popup[r][2].type = "MODULE_COMPLETED"

\* C8: a cancel request changes nothing but the cancelled flag of the job.
C8_CancelOnlySetsFlag ==
    [][(\E r \in RunIds : ~cancelled[r] /\ cancelled'[r]) =>
          UNCHANGED <<mgrVars, isExtractionActive, currentExtractionJob, moduleIds,
                      nextRun, loopVars, scrapeVars, events, delays, callerVars,
                      sideVars>>]_vars

\* C9: once the loop has started module k+1, the scrape body of module k issues no
\* further page probe or navigation step.
C9_NoProbeOfEarlierModule ==
    [][\A r \in RunIds : \A k \in Positions :
          body'[r][k].probes > body[r][k].probes => ~(k < current[r])]_vars

\* C10: while the completion callback of module k is under way the loop is parked
\* at that callback: module k is still the current one, so the start event of
\* module k+1 comes only after the callback of module k settled, and the callbacks
\* of one run are called one at a time, in module order.
C10_LoopAwaitsCompletionCallback ==
    \A r \in RunIds :
        hpc[r] # "idle" => (pc[r] = "cb" /\ Len(results[r]) = current[r])
\* The callback of the second module is under way, after the callback of the first
\* module made its download.
C10_Witness ==
    \E r \in RunIds :
        hpc[r] = "download" /\ current[r] = 2 /\ downloads[r] = 2

\* The start events of a log, in order.
StartEvents(log) == SelectSeq(log, LAMBDA e : e.type = "MODULE_STARTED")
\* The number of progress events at the end of a log.
RECURSIVE TrailingProgress(_)
TrailingProgress(log) ==
    IF log = <<>> \/ Last(log).type # "MODULE_PROGRESS" THEN 0
    ELSE 1 + TrailingProgress(SubSeq(log, 1, Len(log) - 1))

\* C11: every progress event a scrape body emits reaches the progress callback the
\* run was given, as emitted and in emission order: the log of that callback grows
\* by exactly that event, while the loop awaits that module's scrape (after its
\* start event, before its completion callback is called), and each progress event
\* in the log follows the start event of its module or the progress event numbered
\* one less.
C11_ProgressForwardedInOrder ==
    /\ [](\A r \in RunIds : \A i \in 1..Len(events[r]) :
            events[r][i].type = "MODULE_PROGRESS" =>
                /\ i > 1
                /\ events[r][i - 1].moduleId = events[r][i].moduleId
                /\ \/ /\ events[r][i - 1].type = "MODULE_STARTED"
                      /\ events[r][i].current = 1
                   \/ /\ events[r][i - 1].type = "MODULE_PROGRESS"
                      /\ events[r][i].current = events[r][i - 1].current + 1)
    /\ [](\A r \in RunIds :
            (pc[r] = "scrape" /\ body[r][current[r]].st = "running") =>
                TrailingProgress(events[r]) = body[r][current[r]].emitted)
    /\ [][\A r \in RunIds : \A k \in Positions :
            body'[r][k].emitted > body[r][k].emitted =>
                /\ k = current[r] /\ pc[r] = "scrape" /\ pc'[r] = "scrape"
                /\ Len(results[r]) = k - 1 /\ hpc[r] = "idle"
                /\ events'[r] = Append(events[r],
                      [type |-> "MODULE_PROGRESS", moduleId |-> enabledModules[r][k],
                       current |-> body'[r][k].emitted, total |-> MaxProgress])]_vars
\* A run that returned after its profiles module emitted two progress events and
\* succeeded: the log holds the start event and the two events, in order.
C11_Witness ==
    \E r \in RunIds :
        /\ pc[r] = "done"
        /\ Len(results[r]) = 1 /\ results[r][1].success
        /\ Len(events[r]) = 3
        /\ events[r][1].type = "MODULE_STARTED"
        /\ events[r][2].type = "MODULE_PROGRESS" /\ events[r][2].current = 1
        /\ events[r][3].type = "MODULE_PROGRESS" /\ events[r][3].current = 2

\* C12: the start event of a module is handed to the progress callback before its
\* initialize is called: whenever the loop is about to initialize the module at
\* position k, and ever after, the start events of the log are those of positions
\* 1..k, the j-th carrying the j-th enabled id, current = j and total = the number
\* of enabled modules.
C12_StartEventBeforeInitialize ==
    \A r \in RunIds :
        LET st == StartEvents(events[r]) IN
        /\ Len(st) = current[r]
        /\ \A j \in 1..Len(st) :
              st[j] = [type |-> "MODULE_STARTED", moduleId |-> enabledModules[r][j],
                       current |-> j, total |-> Len(enabledModules[r])]
        /\ pc[r] = "init" => Last(events[r]) = st[current[r]]
\* The loop is about to initialize the second of two enabled modules.
C12_Witness ==
    \E r \in RunIds :
        /\ pc[r] = "init" /\ current[r] = 2 /\ Len(enabledModules[r]) = 2
        /\ Last(events[r]).type = "MODULE_STARTED" /\ Last(events[r]).current = 2
        /\ Last(events[r]).total = 2

\* C13: the scrape the loop awaits can always still settle, so that every run
\* finishes: while its promise is pending, either its body can still take a step
\* or a timer that rejects the promise is armed.
C13_ScrapeAlwaysSettles ==
    \A r \in RunIds :
        (pc[r] = "scrape" /\ promise[r].st = "pending") =>
            \/ body[r][current[r]].st \in {"tabget", "running"}
            \/ body[r][current[r]].timer = "armed"

\* C14: after any sequence of enableModules calls, getEnabledModules returns the
\* ids of the most recent call that are registered, in that call's order; every
\* registered module the call did not name is disabled, and an id that is not
\* registered is left out.
C14_EnabledAreLastCallsKnownIds ==
    lastCall.op = "enableModules" =>
        LET got == GetEnabledModules(executionOrder, isEnabled)
            known == {i \in 1..Len(lastCall.ids) : lastCall.ids[i] \in DOMAIN modules}
        IN /\ Len(got) = Cardinality(known)
           /\ \A n \in 1..Len(got) :
                 \E i \in known :
                    /\ got[n] = lastCall.ids[i]
                    /\ Cardinality({j \in known : j < i}) = n - 1
           /\ \A id \in DOMAIN modules :
                 isEnabled[id] <=> \E i \in known : lastCall.ids[i] = id
\* An enableModules call that named an unknown id and then a registered one: only
\* the registered one is enabled.
C14_Witness ==
    /\ lastCall.op = "enableModules"
    /\ lastCall.ids = <<UnknownId, "health-check">>
    /\ UnknownId \notin DOMAIN modules
    /\ GetEnabledModules(executionOrder, isEnabled) = <<"health-check">>
    /\ ~isEnabled["profiles"]

\* C15: registerModule on an id that is already registered replaces the instance:
\* getModule(id) afterwards is the instance just given, not the one before.
C15_ReRegisterReplaces ==
    lastCall.op = "registerModule" =>
        /\ GetModule(modules, lastCall.id) = lastCall.instance
        /\ GetModule(modules, lastCall.id) # lastCall.old
\* An id registered at startup has just been registered again.
C15_Witness ==
    /\ lastCall.op = "registerModule"
    /\ lastCall.id = "profiles"
    /\ lastCall.old = StartupInstance
    /\ modules["profiles"] = 1

\* C16: when a search or click of a module's scrape found no target, the Module
\* Result of that module is a failure whose error is the message of the failed step.
C16_NavigationFailureIsModuleFailure ==
    \A r \in RunIds : \A k \in Positions :
        (body[r][k].st = "navfailed" /\ Len(results[r]) >= k) =>
            /\ ~results[r][k].success
            /\ results[r][k].error \in ScrapeErrors

CompleteMessages(log) == SelectSeq(log, LAMBDA msg : msg.type = "EXTRACTION_COMPLETE")
\* C18: a run whose job was not cancelled has, when it has ended, sent exactly one
\* EXTRACTION_COMPLETE, as its last message, which carries the Module Results of
\* the run in order, whether the modules succeeded or failed.
C18_OneCompleteMessagePerRun ==
    \A r \in RunIds :
        (pc[r] = "done" /\ ~cancelled[r]) =>
            /\ Len(CompleteMessages(popup[r])) = 1
            /\ Last(popup[r]) = [type |-> "EXTRACTION_COMPLETE", results |-> results[r]]

\* C19: when a module failed and its completion callback has run in a job that is
\* not cancelled, the popup has been sent a MODULE_ERROR for that module which
\* carries the module's error message.
C19_FailureSendsModuleError ==
    \A r \in RunIds : \A k \in 1..Len(results[r]) :
        (/\ ~results[r][k].success
         /\ ~cancelled[r]
         /\ (k < current[r] \/ pc[r] \in {"delay", "done"})) =>
            \E n \in 1..Len(popup[r]) :
                /\ popup[r][n].type = "MODULE_ERROR"
                /\ popup[r][n].moduleId = results[r][k].moduleId
                /\ popup[r][n].error = results[r][k].error

\* C20: the loop makes one delay of 500 ms after the completion callback of each
\* module and before the start event of the next: when module k+1 has been
\* started the loop has made k delays, each of 500 ms, and it makes the next one
\* only when the completion callback of module k+1 has settled.
C20_OneDelayBetweenModules ==
    /\ [](\A r \in RunIds :
            /\ \A n \in 1..Len(delays[r]) : delays[r][n] = 500
            /\ Len(delays[r]) = IF pc[r] \in {"delay", "done"} THEN current[r]
                                ELSE IF current[r] = 0 THEN 0 ELSE current[r] - 1
            /\ Len(StartEvents(events[r])) \in {Len(delays[r]), Len(delays[r]) + 1})
    /\ [][\A r \in RunIds :
            /\ delays'[r] # delays[r] =>
                  (pc[r] = "cb" /\ hpc[r] = "idle" /\ events'[r] = events[r])
            /\ (events'[r] # events[r] /\ Last(events'[r]).type = "MODULE_STARTED"
                   /\ Last(events'[r]).current > 1) =>
                  (pc[r] = "delay" /\ delays'[r] = delays[r]
                      /\ Len(delays[r]) = Last(events'[r]).current - 1)]_vars
\* The second module has been started after one delay, made after the download of
\* the first module settled.
C20_Witness ==
    \E r \in RunIds :
        /\ pc[r] = "init" /\ current[r] = 2
        /\ delays[r] = <<500>>
        /\ downloads[r] = 1 /\ Len(popup[r]) = 3

(***************************************************************************)
(* Properties of formatData and getFilename.                               *)
(***************************************************************************)
\* C21: for every module, two formatData calls on the same raw data return the
\* same text, whatever time passes between them.
C21_FormatDataIsPure ==
    \A i, j \in DOMAIN formatted :
        (formatted[i].module = formatted[j].module
            /\ formatted[i].data = formatted[j].data)
        => formatted[i].text = formatted[j].text

\* line.split('\t'): how a reader of the report takes a line apart.
RECURSIVE Split(_)
Split(line) ==
    LET tabs == {i \in DOMAIN line : line[i] = Tab} IN
    IF tabs = {} THEN <<line>>
    ELSE LET i == CHOOSE t \in tabs : \A u \in tabs : t <= u
         IN <<SubSeq(line, 1, i - 1)>> \o Split(SubSeq(line, i + 1, Len(line)))
\* The tables of a text: a header is a tab-separated line that opens a block of
\* lines, and its data rows are the lines after it, up to the next empty line.
IsHeaderLine(text, h) ==
    /\ \E i \in DOMAIN text[h] : text[h][i] = Tab
    /\ h = 1 \/ text[h - 1] = <<>>
DataRows(text, h) == {j \in (h + 1)..Len(text) : \A k \in (h + 1)..j : text[k] # <<>>}

\* C22: in every table formatData emits, each data row has as many tab-separated
\* fields as its header row, and no field of a data row is empty (a missing value is
\* written as a placeholder token).
C22_RowsAlignedWithPlaceholders ==
    \A c \in DOMAIN formatted :
        LET text == formatted[c].text IN
        \A h \in DOMAIN text :
            IsHeaderLine(text, h) =>
                \A j \in DataRows(text, h) :
                    /\ Len(Split(text[j])) = Len(Split(text[h]))
                    /\ \A f \in DOMAIN Split(text[j]) : Split(text[j])[f] # <<>>

Digits == {"1", "2", "3", "4", "5", "6", "7", "8", "9"}
HasOrdinalPrefix(name) == Len(name) >= 3 /\ name[1] \in Digits /\ name[2] = "_"
\* Each module has one filename, and no two modules have the same one.
FilenamesConstantAndDistinct ==
    \A e, f \in filenames : (e.module = f.module) <=> (e.value = f.value)

C24_RunEndClearsJobAndFlag ==
    [][\A r \in RunIds :
          (~Ended(r) /\ Ended(r)') =>
              /\ ~isExtractionActive'
              /\ currentExtractionJob' = 0
      ]_vars
\* A first run that ended by an error and a second, started after it, that ended
\* normally after its cancellation; a start message finds the flag lowered.
C24_Witness ==
    /\ pc[1] = "error"
    /\ pc[2] = "done" /\ cancelled[2]
    /\ ~isExtractionActive /\ currentExtractionJob = 0

\* C25: a throw of the completion callback never aborts the run and never removes or
\* alters a result: in the step in which the callback's promise rejects, the run
\* does not take its error path and its result list stays as it was, whether the
\* module of that callback succeeded or failed.
C25_HandlerThrowKeepsRun ==
    [][\A r \in RunIds :
          (hpc[r] # "threw" /\ hpc'[r] = "threw") =>
              /\ pc'[r] # "error"
              /\ results'[r] = results[r]
      ]_vars

\* C26: the step in which one run ends leaves the job record and the active flag
\* as they were while a different run is still executing.
C26_EndLeavesOtherRunAlone ==
    [][\A r, q \in RunIds :
          (/\ r # q
           /\ ~Ended(r) /\ Ended(r)'
           /\ pc[q] \notin {"idle", "done", "error"}) =>
              /\ currentExtractionJob' = currentExtractionJob
              /\ isExtractionActive' = isExtractionActive
      ]_vars

\* The module ids of the start events of a log, in order.
StartedIds(log) == [i \in 1..Len(StartEvents(log)) |-> StartEvents(log)[i].moduleId]
\* The modules enabled by the start message of run r, in order.
EnabledAtStart(r) == GetEnabledModules(EnableOrder(moduleIds[r]), EnableFlags(moduleIds[r]))
\* C27: a run executes exactly the modules that were enabled when it started, in
\* that order, whatever enableModules calls are made while it executes: the modules
\* it has started so far are the first ones of that list, it is at work on the last
\* of them, and when it has returned it has started all of them.
C27_RunExecutesItsSnapshot ==
    \A r \in RunIds :
        pc[r] # "idle" =>
            LET started == StartedIds(events[r])
                atStart == EnabledAtStart(r)
            IN /\ Len(started) <= Len(atStart)
               /\ started = SubSeq(atStart, 1, Len(started))
               /\ Len(started) = current[r]
               /\ pc[r] = "done" => started = atStart
\* A run has started the second of its two modules while the registry, after an
\* enableModules call with another list, no longer has that module in second place.
C27_Witness ==
    LET live == GetEnabledModules(executionOrder, isEnabled) IN
    /\ pc[1] \notin {"idle", "done"}
    /\ current[1] = 2
    /\ StartedIds(events[1]) = EnabledAtStart(1)
    /\ lastCall.op = "enableModules" /\ lastCall.ids # moduleIds[1]
    /\ (Len(live) < 2 \/ live[2] # EnabledAtStart(1)[2])

(***************************************************************************)
(* Properties of the scrape bodies.                                        *)
(***************************************************************************)
\* The places of the trace where the page call o was made.
CallsOf(o) == {i \in 1..Len(trace) : trace[i].op = o}
\* The delay(ms) calls of the trace.
IsDelay(i, ms) == trace[i].op = "delay" /\ trace[i].ms = ms

NoDataYet(d) ==
    /\ d.percentage \in {"0%", "N/A", ""}
    /\ d.settings = 0 /\ d.highRisk = 0 /\ d.mediumRisk = 0
\* The attempts of the trace are at most 3, each attempt after the first follows a
\* 10 s wait that follows an attempt whose data was 'no data', and a 10 s wait
\* comes only between two attempts.
AttemptsAsRetryRule ==
    LET scrapes == CallsOf("scrape")
        n == Len(trace)
    IN /\ Cardinality(scrapes) <= 3
       /\ \A i \in scrapes : (\E j \in scrapes : j < i) =>
             /\ i > 2 /\ IsDelay(i - 1, 10000)
             /\ trace[i - 2].op = "scrape" /\ NoDataYet(trace[i - 2].data)
       /\ \A i \in 1..n : IsDelay(i, 10000) =>
             /\ i > 1 /\ trace[i - 1].op = "scrape"
             /\ i < n => trace[i + 1].op = "scrape"
\* The body has returned after an attempt that gave it data (an object, and not the
\* object of the catch block of the scrape function).
ReturnedWithData ==
    /\ step = "returned" /\ trace # <<>>
    /\ Last(trace).op = "scrape" /\ Last(trace).res = "result"
    /\ ~Last(trace).data.isNull /\ Last(trace).data.error = ""
\* C29: the scraping of the health-check module makes at most 3 attempts, another
\* one only when the one before looks like 'no data', with a 10 s wait only between
\* attempts, and when it has returned after its last attempt the promise of scrape
\* is resolved with the data of that attempt.
C29_ScrapeRetries ==
    scraping = "health-check" =>
        /\ AttemptsAsRetryRule
        /\ ReturnedWithData =>
              settled.st = "resolved" /\ settled.data = Last(trace).data
\* C29, amended: as C29, but the promise is resolved with the data of the last
\* attempt unless the 150 s timer of the module has fired before, in which case it
\* stays rejected by the timer.
C29_ScrapeRetriesUnlessTimerFired ==
    scraping = "health-check" =>
        /\ AttemptsAsRetryRule
        /\ ReturnedWithData =>
              \/ settled.st = "resolved" /\ settled.data = Last(trace).data
              \/ timeout = "fired" /\ settled.st = "rejected"
\* Three attempts, the third as empty as the two before, and its data returned.
C29_Witness ==
    /\ scraping = "health-check"
    /\ Cardinality(CallsOf("scrape")) = 3
    /\ step = "returned"
    /\ settled.st = "resolved" /\ settled.data = Last(trace).data
    /\ NoDataYet(settled.data)

\* C30: when the search call of a module fails, the module fails at once: the
\* failed search is the last page call or delay of the body, the body has returned,
\* its promise is rejected, and the 150 s timer of the health-check module is no
\* longer armed.
C30_SearchFailureFailsAtOnce ==
    \A i \in CallsOf("search") :
        trace[i].res = "fail" =>
            /\ i = Len(trace)
            /\ step = "returned"
            /\ settled.st = "rejected"
            /\ scraping = "health-check" => timeout # "armed"

(***************************************************************************)
(* Properties of the click functions.                                      *)
(***************************************************************************)
\* What each tier of a click function finds on the page of the last call: the
\* elements the specific selector matches, the elements the text sweep accepts, the
\* anchors whose href holds the name (and not 'analytics'); a function has the
\* tiers its code has.
BySelector == {i \in 1..Len(clickCall.page) : clickCall.page[i].id}
ByText ==
    {i \in 1..Len(clickCall.page) :
        /\ clickCall.func # "clickElementFunc"
        /\ \/ clickCall.page[i].text = "exact"
           \/ clickCall.page[i].text = "loose" /\ clickCall.func = "clickHealthCheckLinkFunc"}
ByAttribute ==
    {i \in 1..Len(clickCall.page) :
        /\ clickCall.func = "clickSharingSettingsLinkFunc"
        /\ clickCall.page[i].href = "match"}
C32_OneRecordPerLink ==
    /\ Len(scrapedData) \in {n \in {link - 1, link} : n >= 0}
    /\ \A k \in 1..Len(scrapedData) :
          /\ scrapedData[k].link = k
          /\ profile[k].st # "pending"
          /\ profile[k].st = "rejected" =>
                /\ scrapedData[k].profileName = "ERROR"
                /\ scrapedData[k].error = profile[k].val
          /\ profile[k].st = "resolved" => scrapedData[k].profileName = ProfileData
    /\ (Len(scrapedData) = link /\ link < MaxProfiles) => ENABLED ScrapeProfile
    /\ (link > 0 /\ Len(scrapedData) = link - 1 /\ profile[link].st # "pending") =>
          ENABLED AfterScrapeProfile
\* The first profile timed out and has its error record; the second was scraped
\* after it and has its data.
C32_Witness ==
    /\ Len(scrapedData) = 2
    /\ scrapedData[1].profileName = "ERROR"
    /\ scrapedData[1].error = ProfileTimeoutError
    /\ scrapedData[2].link = 2
    /\ scrapedData[2].profileName = ProfileData
    /\ scrapedData[2].error = ""

(***************************************************************************)
(* Properties of the messages of the completion callback.                  *)
(***************************************************************************)
\* The MODULE_COMPLETED and MODULE_ERROR messages among the messages of a run.
TerminalMessages(log) ==
    SelectSeq(log, LAMBDA msg : msg.type \in {"MODULE_COMPLETED", "MODULE_ERROR"})
\* The Module Results of a run whose completion callback has returned.
CallbacksReturned(r) ==
    IF pc[r] = "cb" /\ hpc[r] = "download" THEN Len(results[r]) - 1 ELSE Len(results[r])
\* C33: in a run whose job was not cancelled, the popup has been sent exactly one
\* MODULE_COMPLETED or MODULE_ERROR for each Module Result whose completion
\* callback has returned, in the order of the results and naming their modules.
C33_OneTerminalEventPerResult ==
    \A r \in RunIds :
        ~cancelled[r] =>
            LET sent == TerminalMessages(popup[r]) IN
            /\ Len(sent) = CallbacksReturned(r)
            /\ \A k \in 1..Len(sent) : sent[k].moduleId = results[r][k].moduleId

\* C34: in a run, the total of every MODULE_STARTED event and the total of every
\* MODULE_COMPLETED message are both the number of modules the run executes.
C34_TotalsAgree ==
    \A r \in RunIds :
        /\ \A n \in 1..Len(events[r]) :
              events[r][n].type = "MODULE_STARTED" =>
                  events[r][n].total = Len(enabledModules[r])
        /\ \A n \in 1..Len(popup[r]) :
              popup[r][n].type = "MODULE_COMPLETED" =>
                  popup[r][n].total = Len(enabledModules[r])

(***************************************************************************)
(* Properties of the registry and of the list a run takes from it.         *)
(***************************************************************************)
\* C35: a registerModule call (the only step that hands out an instance) leaves
\* the list getEnabledModules returns as it was: the same ids in the same order.
C35_RegisterKeepsEnabledList ==
    [][nextInstance' # nextInstance =>
          GetEnabledModules(executionOrder', isEnabled') =
              GetEnabledModules(executionOrder, isEnabled)]_vars

\* No value occurs twice in the sequence.
NoDuplicates(seq) == \A i, j \in 1..Len(seq) : seq[i] = seq[j] => i = j
\* C36: no module occurs twice in the list getEnabledModules returns, and no
\* module is started twice in a run, whatever id list enableModules was given.
C36_EachModuleAtMostOnce ==
    /\ NoDuplicates(GetEnabledModules(executionOrder, isEnabled))
    /\ \A r \in RunIds :
          \A i, j \in 1..Len(events[r]) :
              (/\ events[r][i].type = "MODULE_STARTED"
               /\ events[r][j].type = "MODULE_STARTED"
               /\ events[r][i].moduleId = events[r][j].moduleId) => i = j

(***************************************************************************)
(* Properties of the count of a profile's active users.                    *)
(***************************************************************************)
\* C37: countActiveUsersWithPagination counts the users of at most 100 pages for
\* one profile, whatever the pages offer.
C37_AtMostHundredPages == counting.visited <= MAX_PAGES
====
